---- MODULE Spec2Model ----
(***************************************************************************)
(* Model of the json-compare structural comparator.                        *)
(*                                                                         *)
(* JsonCompare walks two parsed JSON values in lock-step and appends one   *)
(* record per discrepancy to this.differences.  The repository holds the   *)
(* comparator three times: src/src/json-compare.js (CLI), the web variant  *)
(* in src/unnamed/part_000 (same code, compareObjects renamed              *)
(* compareObjectProperties by the prototype patches) and the capped CLI    *)
(* variant in src/unnamed/part_002 (maxDifferences, comparisonCount).      *)
(*                                                                         *)
(* Around the comparator the model holds its callers: compareFiles of the  *)
(* two CLI variants, and the page of src/unnamed/part_000 (JsonCompareUI:  *)
(* performComparison, swapInputs, the setTimeout callbacks, the summary),  *)
(* with the line aligner createLineDiff / computeLCS of the side-by-side   *)
(* view and createUnifiedDiff of src/app.js, the file inputs, and the two  *)
(* overlays of the page (documentation modal, mobile menu).  The loop of   *)
(* the capped compareArrays is also taken one iteration at a time, on      *)
(* arrays around its sampling threshold of 1000 elements.                  *)
(***************************************************************************)
EXTENDS Integers, Sequences, FiniteSets, TLC

VARIABLES
    differences,      \* this.differences of the JsonCompare instance
    leftJson,         \* left argument of the latest top-level call
    rightJson,        \* right argument of the latest top-level call
    output,           \* what the latest top-level call returned
    maxDifferences,   \* this.maxDifferences (capped variant)
    comparisonCount,  \* this.comparisonCount (capped variant)
    op,               \* name of the latest top-level call, "new" after construction
    leftLines,        \* createLineDiff: the lines of the left text
    rightLines,       \* createLineDiff: the lines of the right text
    lcs,              \* createLineDiff: const lcs = this.computeLCS(leftLines, rightLines)
    leftIdx,          \* createLineDiff: let leftIdx
    rightIdx,         \* createLineDiff: let rightIdx
    lcsIdx,           \* createLineDiff: let lcsIdx
    result,           \* createLineDiff: const result, the aligned rows
    pc,               \* createLineDiff: "idle", "loop" (inside the while) or "done" (returned)
    compared,         \* history: the latest top-level request has invoked this.compare
    page,             \* "none" (a CLI process), "ready" (the web page) or "hung"
    leftText,         \* this.leftText.value
    rightText,        \* this.rightText.value
    status,           \* this.status: message and type
    summary,          \* this.summary: hidden or not, title and description
    results,          \* this.results and this.diffContent: hidden or not, the rows
    compareBtnDisabled,  \* this.compareBtn.disabled
    timers,           \* the callbacks performComparison has handed to setTimeout
    hidePending,      \* a callback of showStatus is pending
    arrayIdx,         \* capped compareArrays at the root: let i
    arrayPc,          \* capped compareArrays at the root: "idle", "loop" or "done"
    docsModalHidden,  \* this.docsModal.classList.contains('hidden')
    navLinksActive,   \* this.navLinks.classList.contains('active')
    bodyOverflow,     \* document.body.style.overflow
    fileReads         \* the file.text() promises of handleFileLoad not yet settled

compareVars ==
    <<differences, leftJson, rightJson, output, maxDifferences, comparisonCount, op, compared>>

alignVars == <<leftLines, rightLines, lcs, leftIdx, rightIdx, lcsIdx, result, pc>>

uiVars ==
    <<page, leftText, rightText, status, summary, results, compareBtnDisabled, timers,
      hidePending>>

sampleVars == <<arrayIdx, arrayPc>>

pageVars == <<docsModalHidden, navLinksActive, bodyOverflow, fileReads>>

vars == <<compareVars, alignVars, uiVars, sampleVars, pageVars>>

(***************************************************************************)
(* Bounds of the model.                                                    *)
(***************************************************************************)
MaxLen == 2       \* longest array among the input documents
MaxKeys == 2      \* most members of an object among the input documents
MaxCap == 2       \* largest configured maxDifferences that is explored
MaxLines == 3     \* longest text, in lines, handed to the line aligner

(***************************************************************************)
(* JavaScript values.  A JSON document is null, a boolean, a number, a     *)
(* string, an array or an object whose members are kept in insertion       *)
(* order (Object.keys order).  "undefined" and "function" values are not   *)
(* JSON but are values the code can hold: undefined is what a missing      *)
(* property reads as, a function is what an inherited property such as     *)
(* constructor reads as.                                                   *)
(***************************************************************************)
Null == [kind |-> "null"]
Undefined == [kind |-> "undefined"]
Bool(b) == [kind |-> "boolean", v |-> b]
Num(n) == [kind |-> "number", v |-> n]
Str(s) == [kind |-> "string", v |-> s]
Fn(name) == [kind |-> "function", v |-> name]
Arr(items) == [kind |-> "array", items |-> items]
Obj(keys, vals) == [kind |-> "object", keys |-> keys, vals |-> vals]

\* The marker of a property a difference record does not have.
Absent == [kind |-> "absent"]

IsArray(v) == v.kind = "array"

\* typeof v
TypeOf(v) ==
    CASE v.kind = "null" -> "object"
      [] v.kind = "array" -> "object"
      [] v.kind = "object" -> "object"
      [] OTHER -> v.kind

\* v === null || v === undefined
\* Mutant of IsNullish: undefined is not taken for a null-like value.
IsNullishNullOnly(v) == v.kind = "null"

IsNullish(v) == v.kind = "null" \/ v.kind = "undefined"

Range(s) == {s[i] : i \in 1..Len(s)}

Max(a, b) == IF a >= b THEN a ELSE b

Min(a, b) == IF a <= b THEN a ELSE b

\* Object.keys(v): the member names of an object in insertion order, the
\* index strings "0", "1", ... of an array.
ObjectKeys(v) ==
    IF IsArray(v) THEN [i \in 1..Len(v.items) |-> ToString(i - 1)] ELSE v.keys

\* Names every object inherits from Object.prototype (and every array from
\* Array.prototype); constructor stands for all of them (toString, valueOf,
\* hasOwnProperty, ...).
InheritedNames == {"constructor"}

\* key in v: own properties, an array's length, and the prototype chain.
HasProperty(key, v) ==
    \/ key \in Range(ObjectKeys(v))
    \/ IsArray(v) /\ key = "length"
    \/ key \in InheritedNames

\* v[key] for a string key
GetProperty(v, key) ==
    LET ks == ObjectKeys(v)
        own == {i \in 1..Len(ks) : ks[i] = key}
    IN  IF own # {}
        THEN LET i == CHOOSE j \in own : TRUE
             IN  IF IsArray(v) THEN v.items[i] ELSE v.vals[i]
        ELSE IF IsArray(v) /\ key = "length" THEN Num(Len(v.items))
        ELSE IF key \in InheritedNames
             THEN Fn(IF IsArray(v) THEN "Array" ELSE "Object")
        ELSE Undefined

\* new Set([...a, ...b]) iterated: a, then the elements of b not yet seen.
RECURSIVE UniqueAppend(_, _)
UniqueAppend(acc, rest) ==
    IF rest = <<>> THEN acc
    ELSE UniqueAppend(IF Head(rest) \in Range(acc) THEN acc ELSE Append(acc, Head(rest)),
                      Tail(rest))

\* Mutant of AllKeys: only the left object's keys are visited.
AllKeysLeftOnly(left, right) == ObjectKeys(left)

\* Mutant of AllKeys: the right object's keys are visited first.
AllKeysRightFirst(left, right) == UniqueAppend(<<>>, ObjectKeys(right) \o ObjectKeys(left))

AllKeys(left, right) == UniqueAppend(<<>>, ObjectKeys(left) \o ObjectKeys(right))

\* path || 'root'
OrRoot(path) == IF path = "" THEN "root" ELSE path

\* path ? `${path}[${i}]` : `[${i}]`
IndexPath(path, i) ==
    IF path # "" THEN path \o "[" \o ToString(i) \o "]" ELSE "[" \o ToString(i) \o "]"

\* path ? `${path}.${key}` : key
KeyPath(path, key) == IF path # "" THEN path \o "." \o key ELSE key

(***************************************************************************)
(* A difference record.  path, type, left and right are the record's       *)
(* properties (Absent: the record has no such property).  pos is a history *)
(* field the code does not keep: the walk from the document root to the    *)
(* pair of nodes the record was pushed for, one segment per step.          *)
(***************************************************************************)
Diff(path, type, left, right, pos) ==
    [path |-> path, type |-> type, left |-> left, right |-> right, pos |-> pos]

KeySeg(key) == [key |-> key]
IndexSeg(i) == [index |-> i]

TypeChangeSide(v) == [type |-> TypeOf(v), value |-> v]

(***************************************************************************)
(* The comparator (src/src/json-compare.js; the web variant is the same    *)
(* code).  Each operator takes the accumulator this.differences as diffs   *)
(* and returns it as the call leaves it.                                   *)
(***************************************************************************)
RECURSIVE compare(_, _, _, _, _)

\* Mutant of ArrayStep: the bound test on the left array is off by one.
ArrayStepOffByOne(left, right, path, pos, diffs, i) ==
    LET currentPath == IndexPath(path, i)
        at == Append(pos, IndexSeg(i))
        rightItem == IF i < Len(right.items) THEN right.items[i + 1] ELSE Undefined
    IN  IF i >= Len(left.items) - 1
        THEN Append(diffs, Diff(currentPath, "added", Absent, rightItem, at))
        ELSE IF i >= Len(right.items)
        THEN Append(diffs, Diff(currentPath, "removed", left.items[i + 1], Absent, at))
        ELSE compare(left.items[i + 1], right.items[i + 1], currentPath, at, diffs)

\* One iteration of the loop of compareArrays, at index i (0-based).
ArrayStep(left, right, path, pos, diffs, i) ==
    LET currentPath == IndexPath(path, i)
        at == Append(pos, IndexSeg(i))
    IN  IF i >= Len(left.items)
        THEN Append(diffs, Diff(currentPath, "added", Absent, right.items[i + 1], at))
        ELSE IF i >= Len(right.items)
        THEN Append(diffs, Diff(currentPath, "removed", left.items[i + 1], Absent, at))
        ELSE compare(left.items[i + 1], right.items[i + 1], currentPath, at, diffs)

\* Mutant of ArrayLoop: the loop stops at the shorter length.
RECURSIVE ArrayLoopToShorter(_, _, _, _, _, _)
ArrayLoopToShorter(left, right, path, pos, diffs, i) ==
    IF i < Min(Len(left.items), Len(right.items))
    THEN ArrayLoopToShorter(left, right, path, pos,
                            ArrayStep(left, right, path, pos, diffs, i), i + 1)
    ELSE diffs

RECURSIVE ArrayLoop(_, _, _, _, _, _)
ArrayLoop(left, right, path, pos, diffs, i) ==
    IF i < Max(Len(left.items), Len(right.items))
    THEN ArrayLoop(left, right, path, pos, ArrayStep(left, right, path, pos, diffs, i), i + 1)
    ELSE diffs

compareArrays(left, right, path, pos, diffs) == ArrayLoop(left, right, path, pos, diffs, 0)

\* One iteration of the loop of compareObjects, for one key of allKeys.
ObjectStep(left, right, path, pos, diffs, key) ==
    LET currentPath == KeyPath(path, key)
        at == Append(pos, KeySeg(key))
    IN  IF ~HasProperty(key, left)
        THEN Append(diffs, Diff(currentPath, "added", Absent, GetProperty(right, key), at))
        ELSE IF ~HasProperty(key, right)
        THEN Append(diffs, Diff(currentPath, "removed", GetProperty(left, key), Absent, at))
        ELSE compare(GetProperty(left, key), GetProperty(right, key), currentPath, at, diffs)

RECURSIVE ObjectLoop(_, _, _, _, _, _)
ObjectLoop(left, right, path, pos, diffs, keys) ==
    IF keys = <<>> THEN diffs
    ELSE ObjectLoop(left, right, path, pos,
                    ObjectStep(left, right, path, pos, diffs, Head(keys)), Tail(keys))

compareObjects(left, right, path, pos, diffs) ==
    ObjectLoop(left, right, path, pos, diffs, AllKeys(left, right))

\* Mutant of compareNullish: the left !== right test is missing.
compareNullishAlways(left, right, path, pos, diffs) ==
    Append(diffs, Diff(OrRoot(path), "value_change", left, right, pos))

\* The null/undefined case of compare: one value_change unless both sides
\* are the same (both null), and no recursion.
compareNullish(left, right, path, pos, diffs) ==
    IF left # right
    THEN Append(diffs, Diff(OrRoot(path), "value_change", left, right, pos))
    ELSE diffs

\* The primitive case of compare: left !== right on two values of one type.
comparePrimitives(left, right, path, pos, diffs) ==
    IF left # right
    THEN Append(diffs, Diff(OrRoot(path), "value_change", left, right, pos))
    ELSE diffs

compare(left, right, path, pos, diffs) ==
    IF IsNullish(left) \/ IsNullish(right)
    THEN compareNullish(left, right, path, pos, diffs)
    ELSE IF TypeOf(left) # TypeOf(right)
    THEN Append(diffs, Diff(OrRoot(path), "type_change",
                            TypeChangeSide(left), TypeChangeSide(right), pos))
    ELSE IF IsArray(left) /\ IsArray(right)
    THEN compareArrays(left, right, path, pos, diffs)
    ELSE IF TypeOf(left) = "object" /\ TypeOf(right) = "object"
    THEN compareObjects(left, right, path, pos, diffs)
    ELSE comparePrimitives(left, right, path, pos, diffs)

\* formatDifferences of the uncapped comparator: the headline of the report.
formatDifferences(diffs) ==
    IF Len(diffs) = 0
    THEN [identical |-> TRUE, total |-> 0, truncated |-> FALSE]
    ELSE [identical |-> FALSE, total |-> Len(diffs), truncated |-> FALSE]

(***************************************************************************)
(* The capped comparator (src/unnamed/part_002).  st is the instance state *)
(* the recursion updates, [differences, comparisonCount]; cap is           *)
(* this.maxDifferences.                                                    *)
(***************************************************************************)
SampleThreshold == 1000

ShowLimit == 100

\* An addDifference that stops one record short of the cap.
addDifferenceBelowCap(st, cap, difference) ==
    IF Len(st.differences) + 1 < cap
    THEN [st EXCEPT !.differences = Append(@, difference)]
    ELSE st

\* addDifference(difference)
addDifference(st, cap, difference) ==
    IF Len(st.differences) < cap
    THEN [st EXCEPT !.differences = Append(@, difference)]
    ELSE st

RECURSIVE compareCapped(_, _, _, _, _, _)

\* One iteration of the loop of the capped compareArrays, past its break test.
ArrayStepCapped(left, right, path, pos, st, cap, i) ==
    LET currentPath == IndexPath(path, i)
        at == Append(pos, IndexSeg(i))
    IN  IF i >= Len(left.items)
        THEN addDifference(st, cap, Diff(currentPath, "added", Absent, right.items[i + 1], at))
        ELSE IF i >= Len(right.items)
        THEN addDifference(st, cap, Diff(currentPath, "removed", left.items[i + 1], Absent, at))
        ELSE compareCapped(left.items[i + 1], right.items[i + 1], currentPath, at, st, cap)

RECURSIVE ArrayLoopCapped(_, _, _, _, _, _, _, _)
ArrayLoopCapped(left, right, path, pos, st, cap, i, step) ==
    IF i < Max(Len(left.items), Len(right.items)) /\ ~(Len(st.differences) >= cap)
    THEN ArrayLoopCapped(left, right, path, pos,
                         ArrayStepCapped(left, right, path, pos, st, cap, i), cap,
                         i + step, step)
    ELSE st

\* const sampleSize, const step of the capped compareArrays.
sampleSize(maxLength) == IF maxLength > SampleThreshold THEN SampleThreshold ELSE maxLength

step(maxLength) ==
    IF maxLength > SampleThreshold THEN maxLength \div sampleSize(maxLength) ELSE 1

compareArraysCapped(left, right, path, pos, st, cap) ==
    LET maxLength == Max(Len(left.items), Len(right.items))
    IN  ArrayLoopCapped(left, right, path, pos, st, cap, 0, step(maxLength))

\* One iteration of the loop of the capped compareObjects, past its break test.
ObjectStepCapped(left, right, path, pos, st, cap, key) ==
    LET currentPath == KeyPath(path, key)
        at == Append(pos, KeySeg(key))
    IN  IF ~HasProperty(key, left)
        THEN addDifference(st, cap,
                           Diff(currentPath, "added", Absent, GetProperty(right, key), at))
        ELSE IF ~HasProperty(key, right)
        THEN addDifference(st, cap,
                           Diff(currentPath, "removed", GetProperty(left, key), Absent, at))
        ELSE compareCapped(GetProperty(left, key), GetProperty(right, key),
                           currentPath, at, st, cap)

RECURSIVE ObjectLoopCapped(_, _, _, _, _, _, _)
ObjectLoopCapped(left, right, path, pos, st, cap, keys) ==
    IF keys # <<>> /\ ~(Len(st.differences) >= cap)
    THEN ObjectLoopCapped(left, right, path, pos,
                          ObjectStepCapped(left, right, path, pos, st, cap, Head(keys)),
                          cap, Tail(keys))
    ELSE st

compareObjectsCapped(left, right, path, pos, st, cap) ==
    ObjectLoopCapped(left, right, path, pos, st, cap, AllKeys(left, right))

compareCapped(left, right, path, pos, st, cap) ==
    IF Len(st.differences) >= cap THEN st
    ELSE LET counted == [st EXCEPT !.comparisonCount = @ + 1]
         IN  IF IsNullish(left) \/ IsNullish(right)
             THEN IF left # right
                  THEN addDifference(counted, cap,
                                     Diff(OrRoot(path), "value_change", left, right, pos))
                  ELSE counted
             ELSE IF TypeOf(left) # TypeOf(right)
             THEN addDifference(counted, cap,
                                Diff(OrRoot(path), "type_change",
                                     TypeChangeSide(left), TypeChangeSide(right), pos))
             ELSE IF IsArray(left) /\ IsArray(right)
             THEN compareArraysCapped(left, right, path, pos, counted, cap)
             ELSE IF TypeOf(left) = "object" /\ TypeOf(right) = "object"
             THEN compareObjectsCapped(left, right, path, pos, counted, cap)
             ELSE IF left # right
             THEN addDifference(counted, cap,
                                Diff(OrRoot(path), "value_change", left, right, pos))
             ELSE counted

\* formatDifferences of the capped comparator: the headline of the report
\* (the count, the truncation notice, how many records are listed).
formatDifferencesCapped(diffs, cap) ==
    IF Len(diffs) = 0
    THEN [identical |-> TRUE, total |-> 0, truncated |-> FALSE, shown |-> 0]
    ELSE [identical |-> FALSE,
          total |-> Len(diffs),
          truncated |-> Len(diffs) >= cap,
          shown |-> Min(Len(diffs), ShowLimit)]

(***************************************************************************)
(* The input documents: every JSON value built as below.  Arrays hold up   *)
(* to MaxLen elements and objects up to MaxKeys members; one more level of *)
(* nesting wraps the small containers in a one-element array or a          *)
(* one-member object.                                                      *)
(***************************************************************************)
KeyNames == {"", "a", "constructor"}

Primitives == {Null, Bool(TRUE), Num(1), Num(2), Str("a")}

ArrayElems == {Null, Num(1), Num(2), Str("a")}

MemberVals == {Num(1), Str("a")}

SeqsUpTo(S, n) == UNION {[1..k -> S] : k \in 0..n}

\* Sequences of distinct member names.
KeySeqs(n) == {ks \in SeqsUpTo(KeyNames, n) : \A i, j \in 1..Len(ks) : i # j => ks[i] # ks[j]}

Arrays(S, n) == {Arr(items) : items \in SeqsUpTo(S, n)}

Objects(S, n) == UNION {{Obj(ks, vals) : vals \in [1..Len(ks) -> S]} : ks \in KeySeqs(n)}

FlatDocs == Arrays(ArrayElems, MaxLen) \cup Objects(MemberVals, MaxKeys)

Inner == Arrays(ArrayElems, 1) \cup Objects(MemberVals \cup {Null}, 1)

NestedDocs == {Arr(<<v>>) : v \in Inner} \cup {Obj(<<k>>, <<v>>) : k \in KeyNames, v \in Inner}

\* Two-member containers holding a small container next to a primitive.
PairDocs ==
    {Arr(<<x, v>>) : x \in {Null, Num(1)}, v \in Inner} \cup
    {Obj(ks, <<v, x>>) : ks \in {<<"", "a">>, <<"a", "">>}, v \in Inner, x \in MemberVals}

\* Two-member objects whose members are empty containers.
EmptyContainers == {Arr(<<>>), Obj(<<>>, <<>>)}

ContainerPairDocs ==
    {Obj(ks, <<v, w>>) : ks \in {<<"", "a">>, <<"a", "">>}, v \in EmptyContainers,
                         w \in EmptyContainers}

Docs == Primitives \cup FlatDocs \cup NestedDocs \cup PairDocs \cup ContainerPairDocs

\* The documents the capped comparator is run on.
CappedDocs == Primitives \cup FlatDocs \cup NestedDocs \cup ContainerPairDocs

(***************************************************************************)
(* The line aligner of the side-by-side view (src/unnamed/part_000).       *)
(* A line of text is its leading white space (counted in indentation       *)
(* steps) and the text that follows it; the lines of the model carry no    *)
(* trailing white space.                                                   *)
(***************************************************************************)
Line(indent, text) == [indent |-> indent, text |-> text]

\* String.prototype.trim: the line without its leading white space.
Trim(line) == Line(0, line.text)

\* The empty string ''.
EmptyText == Line(0, "")

\* lines[idx] of a JavaScript array: undefined past the end.
LineAt(lines, idx) == IF idx < Len(lines) THEN lines[idx + 1] ELSE Undefined

\* One aligned row, as pushed onto result.
Row(leftLineNum, leftContent, rightLineNum, rightContent, type) ==
    [leftLineNum |-> leftLineNum, leftContent |-> leftContent,
     rightLineNum |-> rightLineNum, rightContent |-> rightContent, type |-> type]

ReverseSeq(s) == [k \in 1..Len(s) |-> s[Len(s) + 1 - k]]

\* computeLCS, the table: dp[i][j] is the length of a longest common
\* subsequence of the first i left and the first j right lines, lines
\* being matched after trimming.
RECURSIVE dp(_, _, _, _)
dp(leftLs, rightLs, i, j) ==
    IF i = 0 \/ j = 0 THEN 0
    ELSE IF Trim(leftLs[i]) = Trim(rightLs[j])
    THEN dp(leftLs, rightLs, i - 1, j - 1) + 1
    ELSE Max(dp(leftLs, rightLs, i - 1, j), dp(leftLs, rightLs, i, j - 1))

\* A backtrack that puts the right line of a trimmed match into the
\* subsequence where the code puts the left line.
RECURSIVE BacktrackRightLine(_, _, _, _, _)
BacktrackRightLine(leftLs, rightLs, i, j, acc) ==
    IF i > 0 /\ j > 0
    THEN IF Trim(leftLs[i]) = Trim(rightLs[j])
         THEN BacktrackRightLine(leftLs, rightLs, i - 1, j - 1, <<rightLs[j]>> \o acc)
         ELSE IF dp(leftLs, rightLs, i - 1, j) > dp(leftLs, rightLs, i, j - 1)
         THEN BacktrackRightLine(leftLs, rightLs, i - 1, j, acc)
         ELSE BacktrackRightLine(leftLs, rightLs, i, j - 1, acc)
    ELSE acc

\* A backtrack that moves up on a tie (>=) where the code moves left.
RECURSIVE BacktrackTieUp(_, _, _, _, _)
BacktrackTieUp(leftLs, rightLs, i, j, acc) ==
    IF i > 0 /\ j > 0
    THEN IF Trim(leftLs[i]) = Trim(rightLs[j])
         THEN BacktrackTieUp(leftLs, rightLs, i - 1, j - 1, <<leftLs[i]>> \o acc)
         ELSE IF dp(leftLs, rightLs, i - 1, j) >= dp(leftLs, rightLs, i, j - 1)
         THEN BacktrackTieUp(leftLs, rightLs, i - 1, j, acc)
         ELSE BacktrackTieUp(leftLs, rightLs, i, j - 1, acc)
    ELSE acc

\* computeLCS, the backtrack from (i, j): a trimmed match puts the left
\* line, untrimmed, at the front of the subsequence; otherwise the walk
\* moves up when dp[i-1][j] is strictly larger and left when it is not.
RECURSIVE Backtrack(_, _, _, _, _)
Backtrack(leftLs, rightLs, i, j, acc) ==
    IF i > 0 /\ j > 0
    THEN IF Trim(leftLs[i]) = Trim(rightLs[j])
         THEN Backtrack(leftLs, rightLs, i - 1, j - 1, <<leftLs[i]>> \o acc)
         ELSE IF dp(leftLs, rightLs, i - 1, j) > dp(leftLs, rightLs, i, j - 1)
         THEN Backtrack(leftLs, rightLs, i - 1, j, acc)
         ELSE Backtrack(leftLs, rightLs, i, j - 1, acc)
    ELSE acc

\* A computeLCS whose backtrack appends (push) where the code prepends
\* (unshift): the subsequence comes out reversed.
computeLCSPushed(leftLs, rightLs) ==
    ReverseSeq(Backtrack(leftLs, rightLs, Len(leftLs), Len(rightLs), <<>>))

computeLCS(leftLs, rightLs) == Backtrack(leftLs, rightLs, Len(leftLs), Len(rightLs), <<>>)

\* The condition of the while loop of createLineDiff.
LoopCondition(leftLs, rightLs, li, ri) == li < Len(leftLs) \/ ri < Len(rightLs)

\* One iteration of the while loop of createLineDiff, from the indices li,
\* ri, ci and the rows pushed so far.  The tests are the code's: lines are
\* compared with ===, untrimmed, and the second branch does not test
\* rightIdx against rightLines.length.
LoopStep(leftLs, rightLs, common, li, ri, ci, rows) ==
    LET leftLine == LineAt(leftLs, li)
        rightLine == LineAt(rightLs, ri)
        lcsLine == LineAt(common, ci)
        removed == [leftIdx |-> li + 1, rightIdx |-> ri, lcsIdx |-> ci,
                    result |-> Append(rows, Row(Num(li + 1), leftLine, Null, EmptyText, "removed"))]
        added == [leftIdx |-> li, rightIdx |-> ri + 1, lcsIdx |-> ci,
                  result |-> Append(rows, Row(Null, EmptyText, Num(ri + 1), rightLine, "added"))]
    IN  IF /\ ci < Len(common) /\ li < Len(leftLs) /\ ri < Len(rightLs)
           /\ leftLine = lcsLine /\ rightLine = lcsLine
        THEN [leftIdx |-> li + 1, rightIdx |-> ri + 1, lcsIdx |-> ci + 1,
              result |-> Append(rows, Row(Num(li + 1), leftLine, Num(ri + 1), rightLine,
                                          "unchanged"))]
        ELSE IF ci < Len(common) /\ li < Len(leftLs) /\ leftLine = lcsLine
        THEN added
        ELSE IF ci < Len(common) /\ ri < Len(rightLs) /\ rightLine = lcsLine
        THEN removed
        ELSE IF li < Len(leftLs) /\ ri < Len(rightLs)
        THEN [leftIdx |-> li + 1, rightIdx |-> ri + 1, lcsIdx |-> ci,
              result |-> Append(rows, Row(Num(li + 1), leftLine, Num(ri + 1), rightLine,
                                          "changed"))]
        ELSE IF li < Len(leftLs)
        THEN removed
        ELSE IF ri < Len(rightLs)
        THEN added
        ELSE [leftIdx |-> li, rightIdx |-> ri, lcsIdx |-> ci, result |-> rows]

(***************************************************************************)
(* The line aligner of src/app.js, createUnifiedDiff: the two texts are    *)
(* walked in lock-step, and a pair of lines that differ takes its type     *)
(* from the difference recorded under the member name found in the line.   *)
(***************************************************************************)
\* The lines handed to createUnifiedDiff in the model: a closing brace and
\* the member "y" with two values and at two depths.
UnifiedLines ==
    {Line(0, "}"), Line(1, "\"y\": 1"), Line(1, "\"y\": 2"), Line(2, "\"y\": 1")}

\* extractPathFromLine: the member name matched by /"([^"]+)"\s*:/ in the
\* trimmed line, null when the line holds none.
extractPathFromLine(line) ==
    IF line.text \in {"\"y\": 1", "\"y\": 2"} THEN Str("y") ELSE Null

\* changedPaths.has(path) and changedPaths.get(path), for the Map filled by
\* differences.forEach(diff => changedPaths.set(diff.path, diff.type)).
ChangedPathsHas(diffs, path) == \E i \in 1..Len(diffs) : Str(diffs[i].path) = path

ChangedPathsGet(diffs, path) ==
    LET last == CHOOSE i \in 1..Len(diffs) :
                    /\ Str(diffs[i].path) = path
                    /\ \A j \in (i + 1)..Len(diffs) : Str(diffs[j].path) # path
    IN  diffs[last].type

mapDiffTypeToLineType(diffType) ==
    CASE diffType = "added" -> "added"
      [] diffType = "removed" -> "removed"
      [] diffType = "value_change" -> "changed"
      [] diffType = "type_change" -> "changed"
      [] OTHER -> "unchanged"

\* leftLines[leftIndex] || ''
LineOrEmpty(lines, idx) == IF idx < Len(lines) THEN lines[idx + 1] ELSE EmptyText

\* The while loop of createUnifiedDiff, from the indices li and ri.
RECURSIVE UnifiedLoop(_, _, _, _, _, _)
UnifiedLoop(leftLs, rightLs, diffs, li, ri, rows) ==
    IF li < Len(leftLs) \/ ri < Len(rightLs)
    THEN LET leftLine == LineOrEmpty(leftLs, li)
             rightLine == LineOrEmpty(rightLs, ri)
             leftPath == extractPathFromLine(leftLine)
             rightPath == extractPathFromLine(rightLine)
             leftNum == IF li < Len(leftLs) THEN Num(li + 1) ELSE Null
             rightNum == IF ri < Len(rightLs) THEN Num(ri + 1) ELSE Null
             lineType ==
                 IF leftPath # Null /\ ChangedPathsHas(diffs, leftPath)
                 THEN mapDiffTypeToLineType(ChangedPathsGet(diffs, leftPath))
                 ELSE IF rightPath # Null /\ ChangedPathsHas(diffs, rightPath)
                 THEN mapDiffTypeToLineType(ChangedPathsGet(diffs, rightPath))
                 ELSE "unchanged"
         IN  IF li >= Len(leftLs)
             THEN UnifiedLoop(leftLs, rightLs, diffs, li, ri + 1,
                      Append(rows, Row(Null, EmptyText, rightNum, rightLine, "added")))
             ELSE IF ri >= Len(rightLs)
             THEN UnifiedLoop(leftLs, rightLs, diffs, li + 1, ri,
                      Append(rows, Row(leftNum, leftLine, Null, EmptyText, "removed")))
             ELSE IF Trim(leftLine) = Trim(rightLine)
             THEN UnifiedLoop(leftLs, rightLs, diffs, li + 1, ri + 1,
                      Append(rows, Row(leftNum, leftLine, rightNum, rightLine, "unchanged")))
             ELSE UnifiedLoop(leftLs, rightLs, diffs, li + 1, ri + 1,
                      Append(rows, Row(leftNum, leftLine, rightNum, rightLine,
                                       IF lineType = "unchanged" THEN "changed" ELSE lineType)))
    ELSE rows

createUnifiedDiff(leftLs, rightLs, diffs) == UnifiedLoop(leftLs, rightLs, diffs, 0, 0, <<>>)

(***************************************************************************)
(* Texts and files, for the callers of the comparator.  A text is modelled *)
(* by what trim() and JSON.parse make of it: blank, not JSON, or the JSON  *)
(* text of a document.                                                     *)
(***************************************************************************)
BlankText == [kind |-> "blank"]

InvalidText == [kind |-> "invalid"]

JsonText(doc) == [kind |-> "json", doc |-> doc]

\* The SyntaxError JSON.parse throws, the ENOENT error fs.readFileSync throws.
SyntaxError == [kind |-> "SyntaxError"]

Enoent == [kind |-> "ENOENT"]

IsError(v) == v.kind \in {"SyntaxError", "ENOENT"}

\* JSON.parse(text): the document, or the SyntaxError thrown.
JsonParse(text) == IF text.kind = "json" THEN text.doc ELSE SyntaxError

\* A file of the CLI: missing, or holding a text.
MissingFile == [kind |-> "missing"]

FileOf(text) == [kind |-> "file", text |-> text]

\* loadJsonFile(filePath): the document, or the error caught and rethrown.
loadJsonFile(file) == IF file.kind = "missing" THEN Enoent ELSE JsonParse(file.text)

\* The string `Error: ${error.message}` compareFiles returns behind the
\* cross mark, error.message naming the file that failed to load.
ErrorResult(side, error) ==
    [error |-> "Error loading " \o side \o ".json: " \o error.kind]

\* The same string of the capped CLI, whose loadJsonFile words the message
\* by the kind of error.
ErrorResultCapped(side, error) ==
    [error |-> IF error.kind = "SyntaxError"
               THEN "Invalid JSON in " \o side \o ".json: " \o error.kind
               ELSE "File not found: " \o side \o ".json"]

\* Mutant of ResetDifferences: the accumulator is not reset.
KeepDifferences(diffs) == diffs

\* this.differences = []
ResetDifferences(diffs) == <<>>

(***************************************************************************)
(* JSON.stringify(doc, null, 2).split('\n'): the lines of the pretty-      *)
(* printed document, one indentation step per level of nesting.            *)
(***************************************************************************)
Token(v) ==
    CASE v.kind = "null" -> "null"
      [] v.kind = "boolean" -> IF v.v THEN "true" ELSE "false"
      [] v.kind = "number" -> ToString(v.v)
      [] v.kind = "string" -> "\"" \o v.v \o "\""
      [] v.kind = "array" -> "[]"
      [] v.kind = "object" -> "{}"

RECURSIVE PrettyValue(_, _, _, _)
RECURSIVE PrettyItems(_, _, _)
RECURSIVE PrettyMembers(_, _, _)

\* The lines of v at the given depth, the first behind prefix (the member
\* name, if any) and the last before suffix (the comma, if any).
PrettyValue(v, indent, prefix, suffix) ==
    IF v.kind = "array" /\ v.items # <<>>
    THEN <<Line(indent, prefix \o "[")>> \o PrettyItems(v.items, indent + 1, 1)
             \o <<Line(indent, "]" \o suffix)>>
    ELSE IF v.kind = "object" /\ v.keys # <<>>
    THEN <<Line(indent, prefix \o "{")>> \o PrettyMembers(v, indent + 1, 1)
             \o <<Line(indent, "}" \o suffix)>>
    ELSE <<Line(indent, prefix \o Token(v) \o suffix)>>

PrettyItems(items, indent, i) ==
    IF i > Len(items) THEN <<>>
    ELSE PrettyValue(items[i], indent, "", IF i < Len(items) THEN "," ELSE "")
             \o PrettyItems(items, indent, i + 1)

PrettyMembers(v, indent, i) ==
    IF i > Len(v.keys) THEN <<>>
    ELSE PrettyValue(v.vals[i], indent, "\"" \o v.keys[i] \o "\": ",
                     IF i < Len(v.keys) THEN "," ELSE "")
             \o PrettyMembers(v, indent, i + 1)

PrettyLines(doc) == PrettyValue(doc, 0, "", "")

(***************************************************************************)
(* createLineDiff as one call.  The loop cannot end once rightIdx has      *)
(* passed the end of the right lines: only its second branch increments    *)
(* rightIdx there, and that branch leaves the values it tests unchanged.   *)
(***************************************************************************)
RECURSIVE LineDiffLoop(_, _, _, _, _, _, _)
LineDiffLoop(leftLs, rightLs, common, li, ri, ci, rows) ==
    IF ~LoopCondition(leftLs, rightLs, li, ri)
    THEN [returns |-> TRUE, rows |-> rows]
    ELSE IF ri > Len(rightLs)
    THEN [returns |-> FALSE, rows |-> rows]
    ELSE LET st == LoopStep(leftLs, rightLs, common, li, ri, ci, rows)
         IN  LineDiffLoop(leftLs, rightLs, common, st.leftIdx, st.rightIdx, st.lcsIdx,
                          st.result)

createLineDiff(leftLs, rightLs) ==
    LineDiffLoop(leftLs, rightLs, computeLCS(leftLs, rightLs), 0, 0, 0, <<>>)

(***************************************************************************)
(* The summary of the web page.                                            *)
(***************************************************************************)
\* Mutant of CountStep: the switch has no case for type_change.
CountStepNoType(counts, diff) ==
    CASE diff.type = "value_change" -> [counts EXCEPT !.changed = @ + 1]
      [] diff.type = "added" -> [counts EXCEPT !.added = @ + 1]
      [] diff.type = "removed" -> [counts EXCEPT !.removed = @ + 1]
      [] OTHER -> counts

\* One step of the reduce of countDifferenceTypes.
CountStep(counts, diff) ==
    CASE diff.type = "value_change" -> [counts EXCEPT !.changed = @ + 1]
      [] diff.type = "added" -> [counts EXCEPT !.added = @ + 1]
      [] diff.type = "removed" -> [counts EXCEPT !.removed = @ + 1]
      [] diff.type = "type_change" -> [counts EXCEPT !.type = @ + 1]
      [] OTHER -> counts

RECURSIVE CountLoop(_, _, _)
CountLoop(diffs, i, counts) ==
    IF i > Len(diffs) THEN counts
    ELSE CountLoop(diffs, i + 1, CountStep(counts, diffs[i]))

countDifferenceTypes(diffs) ==
    CountLoop(diffs, 1, [changed |-> 0, added |-> 0, removed |-> 0, type |-> 0])

\* The description line showSummary is given.
CountsText(counts) ==
    ToString(counts.changed) \o " changed, " \o ToString(counts.added) \o " added, "
        \o ToString(counts.removed) \o " removed, " \o ToString(counts.type)
        \o " type changes"

\* The capped compareArrays has not been entered.
SampleIdle == arrayIdx = 0 /\ arrayPc = "idle"

\* The page as loaded: the documentation modal hidden, the mobile menu
\* closed, the body scrolling, no file being read.
PageIdle ==
    /\ docsModalHidden = TRUE
    /\ navLinksActive = FALSE
    /\ bodyOverflow = ""
    /\ fileReads = <<>>

\* No web page: the comparator runs in a CLI process.
UiIdle ==
    /\ page = "none"
    /\ leftText = [kind |-> "blank"]
    /\ rightText = [kind |-> "blank"]
    /\ status = [message |-> "", type |-> ""]
    /\ summary = [hidden |-> TRUE, title |-> "", description |-> ""]
    /\ results = [hidden |-> TRUE, rows |-> <<>>]
    /\ compareBtnDisabled = FALSE
    /\ timers = <<>>
    /\ hidePending = FALSE

\* The line aligner is not running.
AlignIdle ==
    /\ leftLines = <<>>
    /\ rightLines = <<>>
    /\ lcs = <<>>
    /\ leftIdx = 0
    /\ rightIdx = 0
    /\ lcsIdx = 0
    /\ result = <<>>
    /\ pc = "idle"

(***************************************************************************)
(* State machine of one JsonCompare instance of the uncapped comparator.   *)
(* leftJson and rightJson are the two parsed documents the caller holds    *)
(* (the two files of the CLI, the two text areas of the web page); a       *)
(* top-level call compares them.                                           *)
(***************************************************************************)
Init ==
    /\ differences = <<>>
    /\ leftJson \in Docs
    /\ rightJson \in Docs
    /\ output = Undefined
    /\ maxDifferences = 0
    /\ comparisonCount = 0
    /\ op = "new"
    /\ compared = FALSE
    /\ AlignIdle
    /\ UiIdle
    /\ SampleIdle /\ PageIdle

\* Web variant: JsonCompare.prototype.compareObjects(leftJson, rightJson).
CompareObjectsCall ==
    /\ differences' = compare(leftJson, rightJson, "", <<>>, ResetDifferences(differences))
    /\ output' = [differences |-> differences']
    /\ op' = "compareObjects"
    /\ compared' = TRUE
    /\ UNCHANGED <<leftJson, rightJson, maxDifferences, comparisonCount, alignVars, uiVars>>
    /\ UNCHANGED <<sampleVars, pageVars>>

\* CLI: compareFiles(leftFile, rightFile) on two files that load and parse.
CompareFilesCall ==
    /\ differences' = compare(leftJson, rightJson, "", <<>>, ResetDifferences(differences))
    /\ output' = formatDifferences(differences')
    /\ op' = "compareFiles"
    /\ compared' = TRUE
    /\ UNCHANGED <<leftJson, rightJson, maxDifferences, comparisonCount, alignVars, uiVars>>
    /\ UNCHANGED <<sampleVars, pageVars>>

Next ==
    \/ CompareObjectsCall
    \/ CompareFilesCall

Spec == Init /\ [][Next]_vars

(***************************************************************************)
(* State machine of one instance of the capped comparator.  The            *)
(* constructor sets maxDifferences to 10000; the model explores the        *)
(* instance configured with a cap of 1..MaxCap, small enough for the       *)
(* documents above to reach it.                                            *)
(***************************************************************************)
InitCapped ==
    /\ differences = <<>>
    /\ leftJson \in CappedDocs
    /\ rightJson \in CappedDocs
    /\ output = Undefined
    /\ maxDifferences \in 1..MaxCap
    /\ comparisonCount = 0
    /\ op = "new"
    /\ compared = FALSE
    /\ AlignIdle
    /\ UiIdle
    /\ SampleIdle /\ PageIdle

\* Capped CLI: compareFiles(leftFile, rightFile) on two files that load and parse.
CompareFilesCappedCall ==
    LET st == compareCapped(leftJson, rightJson, "", <<>>,
                            [differences |-> ResetDifferences(differences),
                             comparisonCount |-> 0], maxDifferences)
    IN  /\ differences' = st.differences
        /\ comparisonCount' = st.comparisonCount
        /\ output' = formatDifferencesCapped(st.differences, maxDifferences)
        /\ op' = "compareFilesCapped"
        /\ compared' = TRUE
        /\ UNCHANGED <<leftJson, rightJson, maxDifferences, alignVars, uiVars>>
        /\ UNCHANGED <<sampleVars, pageVars>>

NextCapped == CompareFilesCappedCall

SpecCapped == InitCapped /\ [][NextCapped]_vars

(***************************************************************************)
(* State machine of one instance of the capped comparator as constructed   *)
(* (maxDifferences = 10000), whose compareFiles has loaded two arrays of   *)
(* equal numbers.  The loop of compareArrays at the root is taken one      *)
(* iteration at a time: an iteration either calls compare on the pair at   *)
(* index i (comparisonCount++) or records the element one side lacks.  The *)
(* lengths lie on both sides of the sampling threshold.                    *)
(***************************************************************************)
DefaultMaxDifferences == 10000

SampleLengths == {0, 2, 1000, 1001, 2001}

\* The array of n elements, each the number v.
Repeat(v, n) == Arr([k \in 1..n |-> Num(v)])

InitSampling ==
    /\ differences = <<>>
    /\ \E n \in SampleLengths : leftJson = Repeat(1, n)
    /\ \E n \in SampleLengths : rightJson = Repeat(1, n)
    /\ output = Undefined
    /\ maxDifferences = DefaultMaxDifferences
    /\ comparisonCount = 0
    /\ op = "new"
    /\ compared = FALSE
    /\ AlignIdle
    /\ UiIdle
    /\ SampleIdle /\ PageIdle

\* const maxLength of compareArrays at the root.
maxLength == Max(Len(leftJson.items), Len(rightJson.items))

\* compareFiles up to the loop of compareArrays: compare(leftJson, rightJson)
\* counts the call and, both values being arrays, enters compareArrays.
CompareArraysCall ==
    /\ arrayPc = "idle"
    /\ differences' = ResetDifferences(differences)
    /\ comparisonCount' = 1
    /\ arrayIdx' = 0
    /\ arrayPc' = "loop"
    /\ compared' = TRUE
    /\ UNCHANGED <<leftJson, rightJson, output, maxDifferences, op, alignVars, uiVars,
                   pageVars>>

\* One iteration of the for loop: i < maxLength and no break.
CompareArraysIteration ==
    /\ arrayPc = "loop"
    /\ arrayIdx < maxLength
    /\ ~(Len(differences) >= maxDifferences)
    /\ LET st == ArrayStepCapped(leftJson, rightJson, "", <<>>,
                                 [differences |-> differences,
                                  comparisonCount |-> comparisonCount],
                                 maxDifferences, arrayIdx)
       IN  /\ differences' = st.differences
           /\ comparisonCount' = st.comparisonCount
    /\ arrayIdx' = arrayIdx + step(maxLength)
    /\ UNCHANGED <<leftJson, rightJson, output, maxDifferences, op, compared, arrayPc,
                   alignVars, uiVars, pageVars>>

\* The loop ends (i >= maxLength, or the break); compareFiles formats.
CompareArraysReturn ==
    /\ arrayPc = "loop"
    /\ ~(arrayIdx < maxLength) \/ Len(differences) >= maxDifferences
    /\ arrayPc' = "done"
    /\ output' = formatDifferencesCapped(differences, maxDifferences)
    /\ op' = "compareFilesCapped"
    /\ UNCHANGED <<differences, leftJson, rightJson, maxDifferences, comparisonCount,
                   compared, arrayIdx, alignVars, uiVars, pageVars>>

NextSampling ==
    \/ CompareArraysCall
    \/ CompareArraysIteration
    \/ CompareArraysReturn

SpecSampling == InitSampling /\ [][NextSampling]_vars

(***************************************************************************)
(* State machine of one call createLineDiff(leftLines, rightLines) of the  *)
(* web page.  The while loop is taken one iteration at a time, so that a   *)
(* run shows what each iteration consumes; the model follows the loop for  *)
(* at most MaxRows rows.                                                   *)
(***************************************************************************)
LineTexts == {"a", "b"}

Indents == {0, 1}

Lines == {Line(n, t) : n \in Indents, t \in LineTexts}

LineSeqs == SeqsUpTo(Lines, MaxLines)

MaxRows == 2 * MaxLines + 2

\* No comparison is under way on the JsonCompare instance.
CompareIdle ==
    /\ differences = <<>>
    /\ leftJson = Undefined
    /\ rightJson = Undefined
    /\ output = Undefined
    /\ maxDifferences = 0
    /\ comparisonCount = 0
    /\ op = "new"
    /\ compared = FALSE

InitAlign ==
    /\ CompareIdle
    /\ leftLines \in LineSeqs
    /\ rightLines \in LineSeqs
    /\ lcs = <<>>
    /\ leftIdx = 0
    /\ rightIdx = 0
    /\ lcsIdx = 0
    /\ result = <<>>
    /\ pc = "idle"
    /\ UiIdle
    /\ SampleIdle /\ PageIdle

\* createLineDiff up to the while loop.
CreateLineDiffCall ==
    /\ pc = "idle"
    /\ lcs' = computeLCS(leftLines, rightLines)
    /\ leftIdx' = 0
    /\ rightIdx' = 0
    /\ lcsIdx' = 0
    /\ result' = <<>>
    /\ pc' = "loop"
    /\ UNCHANGED <<leftLines, rightLines, compareVars, uiVars>>
    /\ UNCHANGED <<sampleVars, pageVars>>

\* One iteration of the while loop.
LoopIteration ==
    /\ pc = "loop"
    /\ LoopCondition(leftLines, rightLines, leftIdx, rightIdx)
    /\ Len(result) < MaxRows
    /\ LET st == LoopStep(leftLines, rightLines, lcs, leftIdx, rightIdx, lcsIdx, result)
       IN  /\ leftIdx' = st.leftIdx
           /\ rightIdx' = st.rightIdx
           /\ lcsIdx' = st.lcsIdx
           /\ result' = st.result
    /\ UNCHANGED <<leftLines, rightLines, lcs, pc, compareVars, uiVars>>
    /\ UNCHANGED <<sampleVars, pageVars>>

\* The loop condition fails: return result.
LoopExit ==
    /\ pc = "loop"
    /\ ~LoopCondition(leftLines, rightLines, leftIdx, rightIdx)
    /\ pc' = "done"
    /\ UNCHANGED <<leftLines, rightLines, lcs, leftIdx, rightIdx, lcsIdx, result, compareVars,
                   uiVars>>
    /\ UNCHANGED <<sampleVars, pageVars>>

NextAlign ==
    \/ CreateLineDiffCall
    \/ LoopIteration
    \/ LoopExit

SpecAlign == InitAlign /\ [][NextAlign]_vars

(***************************************************************************)
(* State machine of one call createUnifiedDiff(leftLines, rightLines,      *)
(* differences) of src/app.js.  differences holds the records the          *)
(* comparison returned: none, or one record for the member "y" or for the  *)
(* member "x.y".                                                           *)
(***************************************************************************)
UnifiedDiffTypes == {"added", "removed", "value_change", "type_change"}

\* The record of the given type for the member reached by the walk pos.
UnifiedRecord(path, type, pos) ==
    CASE type = "added" -> Diff(path, type, Absent, Num(2), pos)
      [] type = "removed" -> Diff(path, type, Num(1), Absent, pos)
      [] type = "value_change" -> Diff(path, type, Num(1), Num(2), pos)
      [] type = "type_change" ->
             Diff(path, type, TypeChangeSide(Num(1)), TypeChangeSide(Str("a")), pos)

UnifiedDifferences ==
    {<<>>} \cup
    {<<UnifiedRecord("y", t, <<KeySeg("y")>>)>> : t \in UnifiedDiffTypes} \cup
    {<<UnifiedRecord("x.y", t, <<KeySeg("x"), KeySeg("y")>>)>> : t \in UnifiedDiffTypes}

InitUnified ==
    /\ differences \in UnifiedDifferences
    /\ leftJson = Undefined
    /\ rightJson = Undefined
    /\ output = Undefined
    /\ maxDifferences = 0
    /\ comparisonCount = 0
    /\ op = "new"
    /\ compared = FALSE
    /\ leftLines \in SeqsUpTo(UnifiedLines, MaxLines)
    /\ rightLines \in SeqsUpTo(UnifiedLines, MaxLines)
    /\ lcs = <<>>
    /\ leftIdx = 0
    /\ rightIdx = 0
    /\ lcsIdx = 0
    /\ result = <<>>
    /\ pc = "idle"
    /\ UiIdle
    /\ SampleIdle /\ PageIdle

CreateUnifiedDiffCall ==
    /\ pc = "idle"
    /\ result' = createUnifiedDiff(leftLines, rightLines, differences)
    /\ pc' = "done"
    /\ UNCHANGED <<leftLines, rightLines, lcs, leftIdx, rightIdx, lcsIdx, compareVars, uiVars>>
    /\ UNCHANGED <<sampleVars, pageVars>>

NextUnified == CreateUnifiedDiffCall

SpecUnified == InitUnified /\ [][NextUnified]_vars

(***************************************************************************)
(* State machine of one JsonCompare instance whose caller hands it values  *)
(* JSON.parse cannot produce: undefined, alone or as a member or element   *)
(* of a document built in the page's script.                               *)
(***************************************************************************)
ScriptValues ==
    {Undefined, Null, Num(1), Str("a"), Bool(TRUE),
     Arr(<<>>), Arr(<<Undefined>>), Arr(<<Num(1)>>),
     Obj(<<>>, <<>>), Obj(<<"a">>, <<Undefined>>), Obj(<<"a">>, <<Num(1)>>),
     Obj(<<"a">>, <<Arr(<<Undefined>>)>>), Obj(<<"a">>, <<Arr(<<Num(1)>>)>>)}

InitScript ==
    /\ differences = <<>>
    /\ leftJson \in ScriptValues
    /\ rightJson \in ScriptValues
    /\ output = Undefined
    /\ maxDifferences = 0
    /\ comparisonCount = 0
    /\ op = "new"
    /\ compared = FALSE
    /\ AlignIdle
    /\ UiIdle
    /\ SampleIdle /\ PageIdle

NextScript == CompareObjectsCall

SpecScript == InitScript /\ [][NextScript]_vars

(***************************************************************************)
(* State machine of the callers of the comparator: a CLI process that      *)
(* calls compareFiles on one JsonCompare instance (page = "none";          *)
(* maxDifferences = 0 for src/src/json-compare.js, a cap for the capped    *)
(* CLI of src/unnamed/part_002), or the web page of src/unnamed/part_000   *)
(* (page = "ready") with its two text areas, its Compare and Swap buttons  *)
(* and its timers.                                                         *)
(***************************************************************************)
CallDocs ==
    {Obj(<<"a">>, <<Num(1)>>), Obj(<<"a">>, <<Num(2)>>), Arr(<<Obj(<<"a">>, <<Num(1)>>)>>),
     Obj(<<"a", "b">>, <<Str("1"), Num(1)>>)}

Texts == {BlankText, InvalidText} \cup {JsonText(d) : d \in CallDocs}

Files == {MissingFile} \cup {FileOf(t) : t \in Texts}

\* showStatus(message, type); the status line before any message.
Status(message, type) == [message |-> message, type |-> type]

NoStatus == Status("", "")

\* The validation of performComparison makes of a text: empty, the
\* SyntaxError of JSON.parse, or the document.
EmptyInput == [kind |-> "empty"]

InputValue(text) == IF text = BlankText THEN EmptyInput ELSE JsonParse(text)

IsRejected(v) == v = EmptyInput \/ IsError(v)

\* Mutant of InputError: the right input is parsed before the left one.
InputErrorRightFirst(leftValue, rightValue) ==
    IF leftValue = BlankText \/ rightValue = BlankText
    THEN Status("Please provide JSON in both inputs", "error")
    ELSE IF IsError(JsonParse(rightValue))
    THEN Status("Invalid JSON in right input", "error")
    ELSE IF IsError(JsonParse(leftValue))
    THEN Status("Invalid JSON in left input", "error")
    ELSE NoStatus

\* The validation of performComparison: the error status shown, NoStatus
\* when both texts are accepted.
InputError(leftValue, rightValue) ==
    IF leftValue = BlankText \/ rightValue = BlankText
    THEN Status("Please provide JSON in both inputs", "error")
    ELSE IF IsError(JsonParse(leftValue))
    THEN Status("Invalid JSON in left input", "error")
    ELSE IF IsError(JsonParse(rightValue))
    THEN Status("Invalid JSON in right input", "error")
    ELSE NoStatus

\* showSummary(title, description); the summary before any comparison.
Summary(title, description) == [hidden |-> FALSE, title |-> title, description |-> description]

NoSummary == [hidden |-> TRUE, title |-> "", description |-> ""]

\* The results panel with the rows of diffContent; hideResults empties it.
Results(rows) == [hidden |-> FALSE, rows |-> rows]

NoResults == [hidden |-> TRUE, rows |-> <<>>]

\* createDiffLine: the four cells of a rendered row.
createDiffLine(row) ==
    [className |-> row.type,
     leftNum |-> IF row.type = "added" \/ row.leftLineNum = Null THEN Str("") ELSE row.leftLineNum,
     leftDiv |-> IF row.type = "added" THEN EmptyText ELSE row.leftContent,
     rightNum |-> IF row.type = "removed" \/ row.rightLineNum = Null THEN Str("") ELSE row.rightLineNum,
     rightDiv |-> IF row.type = "removed" THEN EmptyText ELSE row.rightContent]

InitCalls ==
    /\ differences = <<>>
    /\ leftJson = Undefined
    /\ rightJson = Undefined
    /\ output = Undefined
    /\ comparisonCount = 0
    /\ op = "new"
    /\ compared = FALSE
    /\ AlignIdle
    /\ \/ /\ page = "none"
          /\ maxDifferences \in 0..MaxCap
          /\ leftText = BlankText
          /\ rightText = BlankText
       \/ /\ page = "ready"
          /\ maxDifferences = 0
          /\ leftText \in Texts
          /\ rightText \in Texts
    /\ status = NoStatus
    /\ summary = NoSummary
    /\ results = NoResults
    /\ compareBtnDisabled = FALSE
    /\ timers = <<>>
    /\ hidePending = FALSE
    /\ SampleIdle /\ PageIdle

\* CLI: compareFiles(leftFile, rightFile).  leftJson and rightJson record
\* what the two files load to; the right file is read only when the left
\* one has loaded.
CompareFilesRequest ==
    /\ page = "none"
    /\ maxDifferences = 0
    /\ \E leftFile, rightFile \in Files :
          LET l == loadJsonFile(leftFile)
              r == loadJsonFile(rightFile)
          IN  /\ leftJson' = l
              /\ rightJson' = r
              /\ IF IsError(l)
                 THEN /\ output' = ErrorResult("left", l)
                      /\ compared' = FALSE
                      /\ UNCHANGED differences
                 ELSE IF IsError(r)
                 THEN /\ output' = ErrorResult("right", r)
                      /\ compared' = FALSE
                      /\ UNCHANGED differences
                 ELSE /\ differences' = compare(l, r, "", <<>>, ResetDifferences(differences))
                      /\ output' = formatDifferences(differences')
                      /\ compared' = TRUE
    /\ op' = "compareFiles"
    /\ UNCHANGED <<maxDifferences, comparisonCount, alignVars, uiVars>>
    /\ UNCHANGED <<sampleVars, pageVars>>

\* Capped CLI: compareFiles(leftFile, rightFile).
CompareFilesCappedRequest ==
    /\ page = "none"
    /\ maxDifferences > 0
    /\ \E leftFile, rightFile \in Files :
          LET l == loadJsonFile(leftFile)
              r == loadJsonFile(rightFile)
              st == compareCapped(l, r, "", <<>>,
                                  [differences |-> ResetDifferences(differences),
                                   comparisonCount |-> 0], maxDifferences)
          IN  /\ leftJson' = l
              /\ rightJson' = r
              /\ IF IsError(l)
                 THEN /\ output' = ErrorResultCapped("left", l)
                      /\ compared' = FALSE
                      /\ UNCHANGED <<differences, comparisonCount>>
                 ELSE IF IsError(r)
                 THEN /\ output' = ErrorResultCapped("right", r)
                      /\ compared' = FALSE
                      /\ UNCHANGED <<differences, comparisonCount>>
                 ELSE /\ differences' = st.differences
                      /\ comparisonCount' = st.comparisonCount
                      /\ output' = formatDifferencesCapped(st.differences, maxDifferences)
                      /\ compared' = TRUE
    /\ op' = "compareFilesCapped"
    /\ UNCHANGED <<maxDifferences, alignVars, uiVars>>
    /\ UNCHANGED <<sampleVars, pageVars>>

\* The user types or pastes one of the given texts into a text area.
EditTextFrom(texts) ==
    /\ page = "ready"
    /\ \E t \in texts :
          \/ leftText' = t /\ UNCHANGED rightText
          \/ rightText' = t /\ UNCHANGED leftText
    /\ UNCHANGED <<page, status, summary, results, compareBtnDisabled, timers, hidePending>>
    /\ UNCHANGED <<compareVars, alignVars>>
    /\ UNCHANGED <<sampleVars, pageVars>>

\* The user types or pastes a text into one of the text areas.
EditText == EditTextFrom(Texts)

\* swapInputs, the click handler of the Swap button.
SwapInputs ==
    /\ page = "ready"
    /\ leftText' = rightText
    /\ rightText' = leftText
    /\ status' = Status("Swapped left and right inputs", "success")
    /\ hidePending' = TRUE
    /\ op' = "swapInputs"
    /\ UNCHANGED <<page, summary, results, compareBtnDisabled, timers>>
    /\ UNCHANGED <<differences, leftJson, rightJson, output, maxDifferences,
                   comparisonCount, compared, alignVars>>
    /\ UNCHANGED <<sampleVars, pageVars>>

\* performComparison, the click handler of the Compare button; a disabled
\* button receives no click.  leftJson and rightJson record what the
\* validation makes of the two text areas.
PerformComparison ==
    /\ page = "ready"
    /\ ~compareBtnDisabled
    /\ LET invalid == InputError(leftText, rightText)
       IN  /\ leftJson' = InputValue(leftText)
           /\ rightJson' = InputValue(rightText)
           /\ IF invalid # NoStatus
              THEN /\ status' = invalid
                   /\ UNCHANGED <<compareBtnDisabled, timers, hidePending>>
              ELSE /\ compareBtnDisabled' = TRUE
                   /\ status' = Status("Comparing...", "success")
                   /\ hidePending' = TRUE
                   /\ timers' = Append(timers, [leftJson |-> JsonParse(leftText),
                                                rightJson |-> JsonParse(rightText)])
    /\ summary' = [summary EXCEPT !.hidden = TRUE]
    /\ results' = NoResults
    /\ op' = "performComparison"
    /\ compared' = FALSE
    /\ UNCHANGED <<page, leftText, rightText>>
    /\ UNCHANGED <<differences, output, maxDifferences, comparisonCount, alignVars>>
    /\ UNCHANGED <<sampleVars, pageVars>>

\* The callback performComparison hands to setTimeout: compareObjects on
\* the two documents parsed at the click, displayResults, and the button is
\* enabled again.  displayDetailedDifferences parses the text areas anew; a
\* SyntaxError there ends the callback, and a createLineDiff that does not
\* return leaves the page hung inside it.
CompareTimer ==
    /\ page = "ready"
    /\ timers # <<>>
    /\ LET closure == Head(timers)
           diffs == compare(closure.leftJson, closure.rightJson, "", <<>>,
                            ResetDifferences(differences))
           leftNow == JsonParse(leftText)
           rightNow == JsonParse(rightText)
           diff == createLineDiff(PrettyLines(leftNow), PrettyLines(rightNow))
           found == ToString(Len(diffs))
       IN  /\ differences' = diffs
           /\ output' = [differences |-> diffs]
           /\ leftJson' = closure.leftJson
           /\ rightJson' = closure.rightJson
           /\ IF diffs = <<>>
              THEN /\ status' = Status("No differences found - JSON objects are identical",
                                       "success")
                   /\ hidePending' = TRUE
                   /\ summary' = Summary("No differences found",
                                         "The JSON objects are identical.")
                   /\ compareBtnDisabled' = FALSE
                   /\ UNCHANGED <<page, results>>
              ELSE /\ summary' = Summary("Found " \o found \o " difference(s)",
                                         CountsText(countDifferenceTypes(diffs)))
                   /\ IF IsError(leftNow) \/ IsError(rightNow)
                      THEN UNCHANGED <<page, results, status, hidePending, compareBtnDisabled>>
                      ELSE IF ~diff.returns
                      THEN /\ page' = "hung"
                           /\ UNCHANGED <<results, status, hidePending, compareBtnDisabled>>
                      ELSE /\ results' = Results([k \in 1..Len(diff.rows) |->
                                                      createDiffLine(diff.rows[k])])
                           /\ status' = Status("Found " \o found \o " differences", "success")
                           /\ hidePending' = TRUE
                           /\ compareBtnDisabled' = FALSE
                           /\ UNCHANGED page
    /\ timers' = Tail(timers)
    /\ op' = "compareObjects"
    /\ compared' = TRUE
    /\ UNCHANGED <<leftText, rightText, maxDifferences, comparisonCount, alignVars>>
    /\ UNCHANGED <<sampleVars, pageVars>>

\* A callback showStatus hands to setTimeout for a success message: it
\* clears the status line if a success message still shows.  Other such
\* callbacks may remain pending.
StatusTimer ==
    /\ page = "ready"
    /\ hidePending
    /\ status' = IF status.type = "success" THEN NoStatus ELSE status
    /\ hidePending' \in BOOLEAN
    /\ UNCHANGED <<page, leftText, rightText, summary, results, compareBtnDisabled, timers>>
    /\ UNCHANGED <<compareVars, alignVars>>
    /\ UNCHANGED <<sampleVars, pageVars>>

NextCalls ==
    \/ CompareFilesRequest
    \/ CompareFilesCappedRequest
    \/ EditText
    \/ SwapInputs
    \/ PerformComparison
    \/ CompareTimer
    \/ StatusTimer

SpecCalls == InitCalls /\ [][NextCalls]_vars

(***************************************************************************)
(* State machine of the web page of src/unnamed/part_000 between a click   *)
(* on Compare and the callback it defers: the text areas can change by     *)
(* typing, by Swap and by a file whose read completes.  At most MaxReads   *)
(* file reads are pending at a time.                                       *)
(***************************************************************************)
MaxReads == 1

PageDocs ==
    {Obj(<<"a">>, <<Num(1)>>), Obj(<<"a">>, <<Num(2)>>), Arr(<<Obj(<<"a">>, <<Num(1)>>)>>)}

PageTexts == {InvalidText} \cup {JsonText(d) : d \in PageDocs}

\* formatJSON(textarea): a text that parses is replaced by its pretty print,
\* a blank or invalid text is left alone.
formatJSON(text) ==
    IF text = BlankText THEN text
    ELSE IF IsError(JsonParse(text)) THEN text
    ELSE JsonText(JsonParse(text))

InitPage ==
    /\ CompareIdle
    /\ AlignIdle
    /\ page = "ready"
    /\ leftText \in PageTexts
    /\ rightText \in PageTexts
    /\ status = NoStatus
    /\ summary = NoSummary
    /\ results = NoResults
    /\ compareBtnDisabled = FALSE
    /\ timers = <<>>
    /\ hidePending = FALSE
    /\ SampleIdle /\ PageIdle

EditPageText == EditTextFrom(PageTexts)

\* handleFileLoad up to its await, on the change event of a file input: a
\* file that is not JSON by name and type is refused, otherwise the read of
\* file.text() starts.
HandleFileLoad ==
    /\ page = "ready"
    /\ \E side \in {"left", "right"}, isJson \in BOOLEAN :
          IF isJson
          THEN /\ Len(fileReads) < MaxReads
               /\ fileReads' = Append(fileReads, side)
               /\ UNCHANGED <<status, hidePending>>
          ELSE /\ status' = Status("Please select a JSON file", "error")
               /\ UNCHANGED <<fileReads, hidePending>>
    /\ UNCHANGED <<page, leftText, rightText, summary, results, compareBtnDisabled, timers>>
    /\ UNCHANGED <<compareVars, alignVars, sampleVars>>
    /\ UNCHANGED <<docsModalHidden, navLinksActive, bodyOverflow>>

\* handleFileLoad after its await: the text read goes into the text area of
\* its side and is formatted; a failed read shows an error.
FileReadSettles ==
    /\ page = "ready"
    /\ fileReads # <<>>
    /\ \/ \E text \in PageTexts :
             /\ IF Head(fileReads) = "left"
                THEN leftText' = formatJSON(text) /\ UNCHANGED rightText
                ELSE rightText' = formatJSON(text) /\ UNCHANGED leftText
             /\ status' = Status("Loaded file.json", "success")
             /\ hidePending' = TRUE
       \/ /\ status' = Status("Error loading file: NotReadableError", "error")
          /\ UNCHANGED <<leftText, rightText, hidePending>>
    /\ fileReads' = Tail(fileReads)
    /\ UNCHANGED <<page, summary, results, compareBtnDisabled, timers>>
    /\ UNCHANGED <<compareVars, alignVars, sampleVars>>
    /\ UNCHANGED <<docsModalHidden, navLinksActive, bodyOverflow>>

NextPage ==
    \/ EditPageText
    \/ SwapInputs
    \/ HandleFileLoad
    \/ FileReadSettles
    \/ PerformComparison
    \/ CompareTimer
    \/ StatusTimer

SpecPage == InitPage /\ [][NextPage]_vars

(***************************************************************************)
(* State machine of the overlays of the web page: the documentation modal  *)
(* and the mobile menu, both of which write document.body.style.overflow,  *)
(* next to the text areas of the page.                                     *)
(***************************************************************************)
InitOverlay ==
    /\ CompareIdle
    /\ AlignIdle
    /\ page = "ready"
    /\ leftText \in Texts
    /\ rightText \in Texts
    /\ status = NoStatus
    /\ summary = NoSummary
    /\ results = NoResults
    /\ compareBtnDisabled = FALSE
    /\ timers = <<>>
    /\ hidePending = FALSE
    /\ SampleIdle /\ PageIdle

\* openDocsModal, the click handler of docsBtn and docsFooterBtn; the call
\* of closeMobileMenu comes after the overflow is set.
OpenDocsModal ==
    /\ page = "ready"
    /\ docsModalHidden' = FALSE
    /\ IF navLinksActive
       THEN navLinksActive' = FALSE /\ bodyOverflow' = ""
       ELSE bodyOverflow' = "hidden" /\ UNCHANGED navLinksActive
    /\ UNCHANGED <<fileReads, compareVars, alignVars, uiVars, sampleVars>>

\* closeDocsModal: closeDocsBtn, a click on the backdrop, the Escape key.
CloseDocsModal ==
    /\ page = "ready"
    /\ docsModalHidden' = TRUE
    /\ bodyOverflow' = ""
    /\ UNCHANGED <<navLinksActive, fileReads, compareVars, alignVars, uiVars, sampleVars>>

\* toggleMobileMenu: closeMobileMenu if the menu is open, openMobileMenu if
\* it is not.
ToggleMobileMenu ==
    /\ page = "ready"
    /\ IF navLinksActive
       THEN navLinksActive' = FALSE /\ bodyOverflow' = ""
       ELSE navLinksActive' = TRUE /\ bodyOverflow' = "hidden"
    /\ UNCHANGED <<docsModalHidden, fileReads, compareVars, alignVars, uiVars, sampleVars>>

\* A click on a .nav-btn inside navLinks: closeMobileMenu.
NavLinkClick ==
    /\ page = "ready"
    /\ navLinksActive' = FALSE
    /\ bodyOverflow' = ""
    /\ UNCHANGED <<docsModalHidden, fileReads, compareVars, alignVars, uiVars, sampleVars>>

NextOverlay ==
    \/ OpenDocsModal
    \/ CloseDocsModal
    \/ ToggleMobileMenu
    \/ NavLinkClick
    \/ EditText

SpecOverlay == InitOverlay /\ [][NextOverlay]_vars

(***************************************************************************)
(* Reading a document by position, for stating the properties.  A walk is  *)
(* a sequence of segments: IndexSeg(i) steps to element i of an array,     *)
(* KeySeg(k) to the own member k of an object.                             *)
(***************************************************************************)
IsContainer(v) == v.kind \in {"array", "object"}

MemberOf(v, key) == v.vals[CHOOSE i \in 1..Len(v.keys) : v.keys[i] = key]

\* The positions of all nodes of v.
RECURSIVE Walks(_)
Walks(v) ==
    {<<>>} \cup
    (IF v.kind = "array"
     THEN UNION {{<<IndexSeg(i - 1)>> \o w : w \in Walks(v.items[i])} : i \in 1..Len(v.items)}
     ELSE IF v.kind = "object"
     THEN UNION {{<<KeySeg(v.keys[i])>> \o w : w \in Walks(v.vals[i])} : i \in 1..Len(v.keys)}
     ELSE {})

\* The node of v at position pos, for pos in Walks(v).
RECURSIVE NodeAt(_, _)
NodeAt(v, pos) ==
    IF pos = <<>> THEN v
    ELSE IF v.kind = "array" THEN NodeAt(v.items[Head(pos).index + 1], Tail(pos))
    ELSE NodeAt(MemberOf(v, Head(pos).key), Tail(pos))

\* a and b are the same JSON value: the same kind at every node, the same
\* member names (in any order), the same array lengths, the same primitives.
RECURSIVE SameJson(_, _)
SameJson(a, b) ==
    /\ a.kind = b.kind
    /\ IF a.kind = "array"
       THEN /\ Len(a.items) = Len(b.items)
            /\ \A i \in 1..Len(a.items) : SameJson(a.items[i], b.items[i])
       ELSE IF a.kind = "object"
       THEN /\ Range(a.keys) = Range(b.keys)
            /\ \A k \in Range(a.keys) : SameJson(MemberOf(a, k), MemberOf(b, k))
       ELSE a = b

IsPrefix(p, q) == Len(p) <= Len(q) /\ SubSeq(q, 1, Len(p)) = p

IsProperPrefix(p, q) == Len(p) < Len(q) /\ SubSeq(q, 1, Len(p)) = p

\* A top-level call has run on leftJson and rightJson.
Called == op # "new"

\* The positions both documents have a node at: the pairs of nodes a
\* comparison that descends through pairs of arrays and pairs of objects
\* can reach.
CommonWalks == Walks(leftJson) \cap Walks(rightJson)

\* Indices of the records pushed for the pair of nodes at pos, and for the
\* nodes beneath it.
RecordsAt(pos) == {i \in 1..Len(differences) : differences[i].pos = pos}

RecordsBelow(pos) == {i \in 1..Len(differences) : IsProperPrefix(pos, differences[i].pos)}

\* The JSON kinds the kind-mismatch rule is about.
NonNullKinds == {"boolean", "number", "string", "array", "object"}

(***************************************************************************)
(* C1  Identity: comparing a JSON value with itself, starting from an      *)
(* empty accumulator, leaves the difference sequence empty.                *)
(***************************************************************************)
C1_Identity == (Called /\ leftJson = rightJson) => differences = <<>>

\* A nested value was compared with itself.
C1_Witness ==
    /\ Called
    /\ leftJson = rightJson
    /\ \E pos \in Walks(leftJson) : Len(pos) = 2
    /\ differences = <<>>

(***************************************************************************)
(* C2  Completeness: an empty difference sequence is returned only when    *)
(* the two documents are the same JSON value; an array and an object are   *)
(* never reported as identical.                                            *)
(***************************************************************************)
C2_Completeness == (Called /\ differences = <<>>) => SameJson(leftJson, rightJson)

(***************************************************************************)
(* C3  Kind mismatch: at every pair of compared nodes that are both        *)
(* non-null and of different JSON kinds (array vs object included),        *)
(* exactly one record is pushed for the pair, it is a type_change whose    *)
(* left and right carry each side's type and value, and no record is       *)
(* pushed for any node beneath the pair.                                   *)
(***************************************************************************)
C3_KindMismatch ==
    Called =>
        \A pos \in CommonWalks :
            LET l == NodeAt(leftJson, pos)
                r == NodeAt(rightJson, pos)
            IN  (l.kind \in NonNullKinds /\ r.kind \in NonNullKinds /\ l.kind # r.kind) =>
                    /\ Cardinality(RecordsAt(pos)) = 1
                    /\ \A i \in RecordsAt(pos) :
                          /\ differences[i].type = "type_change"
                          /\ differences[i].left = TypeChangeSide(l)
                          /\ differences[i].right = TypeChangeSide(r)
                    /\ RecordsBelow(pos) = {}

(***************************************************************************)
(* C4  Symmetry: compare(a, b) and compare(b, a) report differences at the *)
(* same paths; an added record of one run is a removed record of the other *)
(* at the same path with the payload moved between right and left, and a   *)
(* value_change or type_change record has left and right swapped.          *)
(***************************************************************************)
Mirror(d) ==
    [d EXCEPT !.type = CASE d.type = "added" -> "removed"
                         [] d.type = "removed" -> "added"
                         [] OTHER -> d.type,
              !.left = d.right,
              !.right = d.left]

Reverse == compare(rightJson, leftJson, "", <<>>, <<>>)

C5_NullHandling ==
    Called =>
        \A pos \in CommonWalks :
            LET l == NodeAt(leftJson, pos)
                r == NodeAt(rightJson, pos)
            IN  /\ ((l = Null) # (r = Null)) =>
                       /\ Cardinality(RecordsAt(pos)) = 1
                       /\ \A i \in RecordsAt(pos) :
                             /\ differences[i].type = "value_change"
                             /\ differences[i].left = l
                             /\ differences[i].right = r
                       /\ RecordsBelow(pos) = {}
                /\ (l = Null /\ r = Null) => RecordsAt(pos) = {} /\ RecordsBelow(pos) = {}

\* A null met a container below the root, and two nulls met.
C5_Witness ==
    /\ Called
    /\ \E pos \in CommonWalks :
          /\ pos # <<>>
          /\ NodeAt(leftJson, pos) = Null
          /\ IsContainer(NodeAt(rightJson, pos))
          /\ RecordsAt(pos) # {}
    /\ \E pos \in CommonWalks : NodeAt(leftJson, pos) = Null /\ NodeAt(rightJson, pos) = Null

(***************************************************************************)
(* C6  Path construction: the path of every record is the concatenation of *)
(* the segments on the walk from the root to the divergent node: the bare  *)
(* key for a member of the root, '.key' for a member below the root,       *)
(* '[i]' for an array element; and it is 'root' exactly when the divergent *)
(* node is the root.                                                       *)
(***************************************************************************)
SegText(seg, first) ==
    IF "index" \in DOMAIN seg THEN "[" \o ToString(seg.index) \o "]"
    ELSE IF first THEN seg.key
    ELSE "." \o seg.key

RECURSIVE WalkText(_, _)
WalkText(pos, k) ==
    IF k = 0 THEN "" ELSE WalkText(pos, k - 1) \o SegText(pos[k], k = 1)

ExpectedPath(pos) == IF pos = <<>> THEN "root" ELSE WalkText(pos, Len(pos))

C6_PathConstruction ==
    Called =>
        \A d \in Range(differences) :
            /\ d.path = ExpectedPath(d.pos)
            /\ (d.path = "root") <=> (d.pos = <<>>)

(***************************************************************************)
(* The path the code builds for a position: KeyPath and IndexPath folded   *)
(* over the walk, as compareObjects and compareArrays do on the way down.  *)
(***************************************************************************)
RECURSIVE CodePath(_, _)
CodePath(pos, k) ==
    IF k = 0 THEN ""
    ELSE IF "index" \in DOMAIN pos[k] THEN IndexPath(CodePath(pos, k - 1), pos[k].index)
    ELSE KeyPath(CodePath(pos, k - 1), pos[k].key)

PathTo(pos) == CodePath(pos, Len(pos))

\* The records pushed for the pair of nodes at pos or beneath it, in order.
RECURSIVE RecordsUnder(_, _)
RecordsUnder(pos, k) ==
    IF k = 0 THEN <<>>
    ELSE IF IsPrefix(pos, differences[k].pos)
         THEN Append(RecordsUnder(pos, k - 1), differences[k])
         ELSE RecordsUnder(pos, k - 1)

\* The positions at which two objects, or two arrays, are compared.
ObjectPairs ==
    {pos \in CommonWalks :
        NodeAt(leftJson, pos).kind = "object" /\ NodeAt(rightJson, pos).kind = "object"}

ArrayPairs ==
    {pos \in CommonWalks :
        NodeAt(leftJson, pos).kind = "array" /\ NodeAt(rightJson, pos).kind = "array"}

(***************************************************************************)
(* C7  Object members: where two objects are compared, a key only in the   *)
(* right object yields exactly one record for that member, an added record *)
(* at the key's path carrying right[key] and no left; a key only in the    *)
(* left object yields exactly one removed record carrying left[key] and no *)
(* right; a key in both yields exactly the records of comparing the two    *)
(* member values.                                                          *)
(***************************************************************************)
C7_ObjectMembers ==
    Called =>
        \A pos \in ObjectPairs :
            LET l == NodeAt(leftJson, pos)
                r == NodeAt(rightJson, pos)
            IN  \A key \in Range(l.keys) \cup Range(r.keys) :
                    LET at == Append(pos, KeySeg(key))
                        under == RecordsUnder(at, Len(differences))
                        path == KeyPath(PathTo(pos), key)
                    IN  /\ (key \notin Range(l.keys)) =>
                              under = <<Diff(path, "added", Absent, MemberOf(r, key), at)>>
                        /\ (key \notin Range(r.keys)) =>
                              under = <<Diff(path, "removed", MemberOf(l, key), Absent, at)>>
                        /\ (key \in Range(l.keys) /\ key \in Range(r.keys)) =>
                              under = compare(MemberOf(l, key), MemberOf(r, key), path, at, <<>>)

C9_ShortCircuit ==
    Called =>
        /\ \A i, j \in 1..Len(differences) :
              i # j => ~IsPrefix(differences[i].pos, differences[j].pos)
        /\ \A d \in Range(differences) :
              \A k \in 0..(Len(d.pos) - 1) :
                  SubSeq(d.pos, 1, k) \in ObjectPairs \cup ArrayPairs

(***************************************************************************)
(* C10  Cap behaviour: when two objects differ in more keys than the       *)
(* configured maxDifferences, the capped comparator returns exactly        *)
(* maxDifferences records and the report carries the truncation notice.    *)
(***************************************************************************)
\* The keys in which two objects differ: present on one side only, or
\* holding different JSON values.
DifferingKeys(l, r) ==
    {k \in Range(l.keys) \cup Range(r.keys) :
        \/ k \notin Range(l.keys)
        \/ k \notin Range(r.keys)
        \/ ~SameJson(MemberOf(l, k), MemberOf(r, k))}

BothObjects == leftJson.kind = "object" /\ rightJson.kind = "object"

C10_CapBehaviour ==
    (/\ op = "compareFilesCapped"
     /\ BothObjects
     /\ Cardinality(DifferingKeys(leftJson, rightJson)) > maxDifferences) =>
        /\ Len(differences) = maxDifferences
        /\ output.truncated

(***************************************************************************)
(* What a top-level call returns on a freshly constructed instance, whose  *)
(* accumulator is empty and whose comparison count is zero.                *)
(***************************************************************************)
FreshCompareObjects(l, r) == [differences |-> compare(l, r, "", <<>>, <<>>)]

FreshCompareFiles(l, r) ==
    IF IsError(l) THEN ErrorResult("left", l)
    ELSE IF IsError(r) THEN ErrorResult("right", r)
    ELSE formatDifferences(compare(l, r, "", <<>>, <<>>))

FreshCompareFilesCapped(l, r, cap) ==
    IF IsError(l) THEN ErrorResultCapped("left", l)
    ELSE IF IsError(r) THEN ErrorResultCapped("right", r)
    ELSE formatDifferencesCapped(
             compareCapped(l, r, "", <<>>, [differences |-> <<>>, comparisonCount |-> 0],
                           cap).differences,
             cap)

(***************************************************************************)
(* C11  No cross-call state: after any sequence of top-level calls on one  *)
(* instance (compareObjects of the web page, compareFiles of the two CLI   *)
(* variants, calls that fail to load a file included), the result of the   *)
(* latest call is the result the same call gives on a fresh instance, and  *)
(* the records it returns are those of its own comparison alone.           *)
(***************************************************************************)
C11_NoCrossCallState ==
    /\ op = "compareObjects" =>
           /\ output = FreshCompareObjects(leftJson, rightJson)
           /\ differences = output.differences
    /\ op = "compareFiles" => output = FreshCompareFiles(leftJson, rightJson)
    /\ op = "compareFilesCapped" =>
           output = FreshCompareFilesCapped(leftJson, rightJson, maxDifferences)

\* A call has failed to load its right file on an instance that still holds
\* the records of an earlier call.
C11_Witness ==
    /\ op = "compareFiles"
    /\ IsError(rightJson)
    /\ ~IsError(leftJson)
    /\ differences # <<>>
    /\ output = ErrorResult("right", rightJson)

\* The number of records of the given type in diffs.
Tally(diffs, type) == Cardinality({i \in 1..Len(diffs) : diffs[i].type = type})

(***************************************************************************)
(* C16  Summary tally: countDifferenceTypes returns counts in which        *)
(* changed, added, removed and type are the numbers of value_change,       *)
(* added, removed and type_change records, their sum is the length of the  *)
(* sequence, the summary of the page shows these counts, and the sequence  *)
(* counted is still the one the comparison returned.                       *)
(***************************************************************************)
C16_SummaryTally ==
    (op = "compareObjects" /\ differences # <<>>) =>
        LET counts == countDifferenceTypes(differences)
        IN  /\ counts.changed = Tally(differences, "value_change")
            /\ counts.added = Tally(differences, "added")
            /\ counts.removed = Tally(differences, "removed")
            /\ counts.type = Tally(differences, "type_change")
            /\ counts.changed + counts.added + counts.removed + counts.type = Len(differences)
            /\ summary.description =
                   CountsText([changed |-> Tally(differences, "value_change"),
                               added |-> Tally(differences, "added"),
                               removed |-> Tally(differences, "removed"),
                               type |-> Tally(differences, "type_change")])
            /\ output.differences = differences

\* The page shows the summary of a comparison that found a type change and
\* an added member, and of one that found two added members.
C16_Witness ==
    /\ op = "compareObjects"
    /\ ~summary.hidden
    /\ Len(differences) >= 2
    /\ Tally(differences, "type_change") = 1
    /\ Tally(differences, "added") = 1
    /\ summary.description = "0 changed, 1 added, 0 removed, 1 type changes"

\* The latest request was given an input that does not load or parse.
RejectedRequest == IsRejected(leftJson) \/ IsRejected(rightJson)

\* The comparator was not invoked for the latest request.
NotCompared == ~compared /\ timers = <<>>

\* What the CLI returns for files that do not load, the left file first.
CliRejection ==
    /\ op = "compareFiles" =>
           output = IF IsError(leftJson) THEN ErrorResult("left", leftJson)
                    ELSE ErrorResult("right", rightJson)
    /\ op = "compareFilesCapped" =>
           output = IF IsError(leftJson) THEN ErrorResultCapped("left", leftJson)
                    ELSE ErrorResultCapped("right", rightJson)

(***************************************************************************)
(* C17  Invalid input is rejected before comparison: if either input fails *)
(* to load or parse, compare is not invoked for the request and the caller *)
(* gets an error result: the Error message in the CLI, and in the web page *)
(* an error status that names the offending side, the left side checked    *)
(* before the right one.                                                   *)
(***************************************************************************)
C17_InvalidInputRejected ==
    RejectedRequest =>
        /\ op \in {"compareFiles", "compareFilesCapped"} => NotCompared /\ CliRejection
        /\ op = "performComparison" =>
               /\ NotCompared
               /\ status = Status("Invalid JSON in "
                                      \o (IF IsRejected(leftJson) THEN "left" ELSE "right")
                                      \o " input", "error")

(***************************************************************************)
(* C17, amended  If either input fails to load or parse, compare is not    *)
(* invoked for the request and the caller gets an error result: the Error  *)
(* message in the CLI, naming the left file if it fails and the right file *)
(* otherwise; in the web page the status 'Please provide JSON in both      *)
(* inputs', which names no side, when either text is empty, and otherwise  *)
(* the status naming the side whose text is not JSON, left before right.   *)
(***************************************************************************)
C17_InvalidInputRejectedAmended ==
    RejectedRequest =>
        /\ op \in {"compareFiles", "compareFilesCapped"} => NotCompared /\ CliRejection
        /\ op = "performComparison" =>
               /\ NotCompared
               /\ status =
                      IF leftJson = EmptyInput \/ rightJson = EmptyInput
                      THEN Status("Please provide JSON in both inputs", "error")
                      ELSE Status("Invalid JSON in "
                                      \o (IF IsError(leftJson) THEN "left" ELSE "right")
                                      \o " input", "error")

\* The Compare button was clicked with a left text that is not JSON and an
\* empty right text, on a page that shows the records of an earlier
\* comparison.
C17_Witness ==
    /\ op = "performComparison"
    /\ IsError(leftJson)
    /\ rightJson = EmptyInput
    /\ differences # <<>>
    /\ status.type = "error"

(***************************************************************************)
(* Reading the rows of the line aligner, for stating the properties.       *)
(***************************************************************************)
\* createLineDiff has been called on leftLines and rightLines.
Aligning == pc # "idle"

HasLeftLine(row) == row.leftLineNum # Null

HasRightLine(row) == row.rightLineNum # Null

\* The rows of an alignment in which every line is matched with itself.
UnchangedRows(lines) ==
    [k \in 1..Len(lines) |-> Row(Num(k), lines[k], Num(k), lines[k], "unchanged")]

(***************************************************************************)
(* C12  Identical texts: createLineDiff(lines, lines) returns exactly      *)
(* Len(lines) rows, all of type unchanged, row k carrying line k with      *)
(* leftLineNum = rightLineNum = k.  While the loop runs the rows pushed so *)
(* far are the first rows of that result, so the loop returns after        *)
(* Len(lines) iterations.                                                  *)
(***************************************************************************)
C12_IdenticalLines ==
    (Aligning /\ leftLines = rightLines) =>
        /\ Len(result) <= Len(leftLines)
        /\ result = SubSeq(UnchangedRows(leftLines), 1, Len(result))
        /\ pc = "done" => result = UnchangedRows(leftLines)

\* The call has returned for a text of several lines that are not all alike.
C12_Witness ==
    /\ pc = "done"
    /\ leftLines = rightLines
    /\ Len(leftLines) >= 2
    /\ leftLines[1] # leftLines[2]
    /\ Len(result) = Len(leftLines)
    /\ \A k \in 1..Len(result) : result[k].type = "unchanged"

\* The rows that carry a left (right) line number, in row order.
LeftRows(rows) == SelectSeq(rows, HasLeftLine)

RightRows(rows) == SelectSeq(rows, HasRightLine)

(***************************************************************************)
(* C13  Alignment round trip: for all L and R the rows that carry a left   *)
(* line number, read in row order, are the lines of L, each numbered with  *)
(* its 1-based position, and the rows that carry a right line number are   *)
(* the lines of R in the same way.  The rows pushed so far reconstruct the *)
(* lines consumed so far, and the returned rows reconstruct L and R whole. *)
(***************************************************************************)
C13_RoundTrip ==
    Aligning =>
        LET ls == LeftRows(result)
            rs == RightRows(result)
        IN  /\ Len(ls) <= Len(leftLines)
            /\ Len(rs) <= Len(rightLines)
            /\ \A k \in 1..Len(ls) :
                   ls[k].leftLineNum = Num(k) /\ ls[k].leftContent = leftLines[k]
            /\ \A k \in 1..Len(rs) :
                   rs[k].rightLineNum = Num(k) /\ rs[k].rightContent = rightLines[k]
            /\ pc = "done" => (Len(ls) = Len(leftLines) /\ Len(rs) = Len(rightLines))

\* The loop stands before an iteration in which the current left line and
\* the current right line both equal the next LCS element after trimming.
TrimmedMatch ==
    /\ pc = "loop"
    /\ lcsIdx < Len(lcs)
    /\ leftIdx < Len(leftLines)
    /\ rightIdx < Len(rightLines)
    /\ Trim(leftLines[leftIdx + 1]) = Trim(lcs[lcsIdx + 1])
    /\ Trim(rightLines[rightIdx + 1]) = Trim(lcs[lcsIdx + 1])

(***************************************************************************)
(* C14  Trimmed line equality: in an iteration where the current left line *)
(* and the current right line both equal the next element of the LCS after *)
(* trimming, the row pushed is unchanged and both lines are consumed.      *)
(***************************************************************************)
C14_TrimmedEquality ==
    [][TrimmedMatch =>
          /\ result' = Append(result, Row(Num(leftIdx + 1), leftLines[leftIdx + 1],
                                          Num(rightIdx + 1), rightLines[rightIdx + 1],
                                          "unchanged"))
          /\ leftIdx' = leftIdx + 1
          /\ rightIdx' = rightIdx + 1]_vars

\* The shape the type of a row asks of it.
RowShape(row) ==
    /\ row.type = "added" =>
           ~HasLeftLine(row) /\ row.leftContent = EmptyText /\ HasRightLine(row)
    /\ row.type = "removed" =>
           ~HasRightLine(row) /\ row.rightContent = EmptyText /\ HasLeftLine(row)
    /\ row.type \in {"unchanged", "changed"} => HasLeftLine(row) /\ HasRightLine(row)

(***************************************************************************)
(* C15  Row shape: in every aligned row, an added row carries no left line *)
(* number and empty left text, a removed row carries no right line number  *)
(* and empty right text, and unchanged and changed rows carry both line    *)
(* numbers: a line number is absent exactly on the side that has no line   *)
(* in the row.                                                             *)
(***************************************************************************)
C15_RowShape == \A k \in 1..Len(result) : RowShape(result[k])

(***************************************************************************)
(* The pairs of nodes compare is called on with undefined on one side or   *)
(* on both: the positions reached through pairs of arrays and pairs of     *)
(* objects at which a document holds undefined.                            *)
(***************************************************************************)
ReachedPairs ==
    {pos \in CommonWalks :
        \A k \in 0..(Len(pos) - 1) : SubSeq(pos, 1, k) \in ObjectPairs \cup ArrayPairs}

UndefinedPairs ==
    {pos \in ReachedPairs :
        NodeAt(leftJson, pos) = Undefined \/ NodeAt(rightJson, pos) = Undefined}

IsIndexSeg(seg) == "index" \in DOMAIN seg

\* The node reached from v by the walk pos, members read as v[key].
RECURSIVE Descend(_, _)
Descend(v, pos) ==
    IF pos = <<>> THEN v
    ELSE Descend(IF IsIndexSeg(Head(pos))
                 THEN v.items[Head(pos).index + 1]
                 ELSE GetProperty(v, Head(pos).key),
                 Tail(pos))

PositionIn(names, name) == CHOOSE i \in 1..Len(names) : names[i] = name

\* The rank of the step seg among the steps taken from the pair (l, r).
VisitRank(l, r, seg) ==
    IF IsIndexSeg(seg) THEN seg.index
    ELSE IF seg.key \in Range(ObjectKeys(l))
    THEN PositionIn(ObjectKeys(l), seg.key)
    ELSE Len(ObjectKeys(l)) + PositionIn(ObjectKeys(r), seg.key)

\* The walks p and q part at their step k.
PartAt(p, q, k) ==
    /\ k <= Len(p)
    /\ k <= Len(q)
    /\ p[k] # q[k]
    /\ SubSeq(p, 1, k - 1) = SubSeq(q, 1, k - 1)

VisitedBefore(p, q) ==
    \E k \in 1..Min(Len(p), Len(q)) :
        /\ PartAt(p, q, k)
        /\ LET parent == SubSeq(p, 1, k - 1)
               l == Descend(leftJson, parent)
               r == Descend(rightJson, parent)
           IN  VisitRank(l, r, p[k]) < VisitRank(l, r, q[k])

(***************************************************************************)
(* C19  Output ordering: the records come in the order of a depth-first    *)
(* walk that visits the members of a pair of objects left keys first, in   *)
(* the left object's key order, then the keys only the right object has,   *)
(* and the elements of a pair of arrays by ascending index.  Of any two    *)
(* records, the earlier one lies on the branch visited first at the node   *)
(* where their walks part.                                                 *)
(***************************************************************************)
C19_OutputOrdering ==
    Called =>
        \A i, j \in 1..Len(differences) :
            i < j => VisitedBefore(differences[i].pos, differences[j].pos)

\* A record for a key only the right object has follows the record of a
\* left key that the right object lists after it.
C19_Witness ==
    /\ Called
    /\ BothObjects
    /\ \E i, j \in 1..Len(differences) :
          /\ i < j
          /\ Len(differences[i].pos) = 1
          /\ differences[j].type = "added"
          /\ differences[j].pos = <<KeySeg(rightJson.keys[1])>>
          /\ Len(rightJson.keys) = 2
          /\ differences[i].pos = <<KeySeg(rightJson.keys[2])>>

(***************************************************************************)
(* C20  Alignment terminates: every iteration of the loop consumes a line  *)
(* that exists in L or in R, so neither index passes the end of its text   *)
(* and the rows never outnumber Len(L) + Len(R).                           *)
(***************************************************************************)
C20_Terminates ==
    Aligning =>
        /\ leftIdx <= Len(leftLines)
        /\ rightIdx <= Len(rightLines)
        /\ Len(result) <= Len(leftLines) + Len(rightLines)

(***************************************************************************)
(* Subsequences, for stating what computeLCS returns.                      *)
(***************************************************************************)
\* The elements of s at the indices I, in order.
RECURSIVE PickFrom(_, _, _)
PickFrom(s, I, k) ==
    IF k > Len(s) THEN <<>>
    ELSE (IF k \in I THEN <<s[k]>> ELSE <<>>) \o PickFrom(s, I, k + 1)

Pick(s, I) == PickFrom(s, I, 1)

TrimAll(s) == [k \in 1..Len(s) |-> Trim(s[k])]

RECURSIVE IsSubsequence(_, _)
IsSubsequence(s, t) ==
    IF s = <<>> THEN TRUE
    ELSE IF t = <<>> THEN FALSE
    ELSE IF Head(s) = Head(t) THEN IsSubsequence(Tail(s), Tail(t))
    ELSE IsSubsequence(s, Tail(t))

\* The sets of left indices whose lines, trimmed, are a common subsequence
\* of the two texts.
CommonIndexSets(leftLs, rightLs) ==
    LET leftTrimmed == TrimAll(leftLs)
        rightTrimmed == TrimAll(rightLs)
    IN  {I \in SUBSET (1..Len(leftLs)) : IsSubsequence(Pick(leftTrimmed, I), rightTrimmed)}

\* The length of a longest common subsequence of the trimmed texts.
LongestCommon(leftLs, rightLs) ==
    LET sizes == {Cardinality(I) : I \in CommonIndexSets(leftLs, rightLs)}
    IN  CHOOSE n \in sizes : \A k \in sizes : k <= n

\* computeLCS has just returned into createLineDiff: the loop has not run
\* yet (lcs is not assigned again afterwards).
LCSReturned == pc = "loop" /\ leftIdx = 0 /\ rightIdx = 0 /\ result = <<>>

RECURSIVE Lateness(_, _)
Lateness(I, k) ==
    IF k = 0 THEN 0 ELSE Lateness(I, k - 1) + (IF k \in I THEN 2 ^ (k - 1) ELSE 0)

\* The rank of a set of left indices among the common subsequences: longer
\* first, and of two of the same length the later; no rank (-1) for a set
\* whose lines are not a common subsequence.
Rank(leftTrimmed, rightTrimmed, I) ==
    IF IsSubsequence(Pick(leftTrimmed, I), rightTrimmed)
    THEN Cardinality(I) * 2 ^ Len(leftTrimmed) + Lateness(I, Len(leftTrimmed))
    ELSE -1

\* Among the sets of left indices of the longest common subsequences, the
\* one made of the latest lines.
LatestIndexSet(leftLs, rightLs) ==
    LET leftTrimmed == TrimAll(leftLs)
        rightTrimmed == TrimAll(rightLs)
        ranks == {Rank(leftTrimmed, rightTrimmed, I) : I \in SUBSET (1..Len(leftLs))}
        best == CHOOSE m \in ranks : \A k \in ranks : k <= m
    IN  CHOOSE I \in SUBSET (1..Len(leftLs)) : Rank(leftTrimmed, rightTrimmed, I) = best

(***************************************************************************)
(* C22  LCS tie-break: back-tracking from (m, n), at a cell whose lines    *)
(* are not trimmed-equal the left line is skipped only when dp[i-1][j] is  *)
(* strictly greater than dp[i][j-1], and on a tie the right line is        *)
(* skipped.  A left line is therefore given up only when no longest common *)
(* subsequence of the two prefixes ends with it, which fixes the choice    *)
(* among equally long common subsequences: the result is the one made of   *)
(* the latest left lines, a function of the two line sequences.            *)
(***************************************************************************)
C22_TieBreak ==
    LCSReturned => lcs = Pick(leftLines, LatestIndexSet(leftLines, rightLines))

\* The first cell of the back-track is a tie between two lines that are not
\* trimmed-equal, and skipping the left line would have returned another
\* subsequence of the same length.
C22_Witness ==
    /\ LCSReturned
    /\ Len(leftLines) = 2
    /\ Len(rightLines) = 2
    /\ Trim(leftLines[2]) # Trim(rightLines[2])
    /\ dp(leftLines, rightLines, 1, 2) = dp(leftLines, rightLines, 2, 1)
    /\ lcs = <<leftLines[2]>>
    /\ Trim(leftLines[1]) = Trim(rightLines[2])
    /\ leftLines[1] # leftLines[2]

\* The loop stands before an iteration with every left line consumed.
LeftExhausted ==
    pc = "loop" /\ leftIdx >= Len(leftLines) /\ rightIdx < Len(rightLines)

\* The loop stands before an iteration with every right line consumed.
RightExhausted ==
    pc = "loop" /\ rightIdx >= Len(rightLines) /\ leftIdx < Len(leftLines)

(***************************************************************************)
(* C23  Exhausted side: once all lines of one side have been consumed,     *)
(* every iteration emits the next remaining line of the other side as its  *)
(* own row, of type added when right lines remain and of type removed when *)
(* left lines remain, and consumes that line; no row is emitted for a line *)
(* that does not exist.                                                    *)
(***************************************************************************)
C23_ExhaustedSide ==
    [][/\ LeftExhausted =>
              /\ result' = Append(result, Row(Null, EmptyText, Num(rightIdx + 1),
                                              rightLines[rightIdx + 1], "added"))
              /\ rightIdx' = rightIdx + 1
              /\ leftIdx' = leftIdx
       /\ RightExhausted =>
              /\ result' = Append(result, Row(Num(leftIdx + 1), leftLines[leftIdx + 1],
                                              Null, EmptyText, "removed"))
              /\ leftIdx' = leftIdx + 1
              /\ rightIdx' = rightIdx]_vars

\* The number of indices the loop of compareArrays at the root has dealt
\* with: each iteration calls compare once or records one difference.
IndicesCompared == (comparisonCount - 1) + Len(differences)

(***************************************************************************)
(* C24  Sampling bound: in the capped CLI comparator an array pair whose   *)
(* longer length is at most 1000 is compared at every index (iteration k   *)
(* deals with index k - 1, and the loop ends past the last index), and an  *)
(* array pair whose longer length exceeds 1000 is compared at no more than *)
(* sampleSize = 1000 indices, visited at a constant stride starting from   *)
(* index 0.                                                                *)
(***************************************************************************)
C24_SamplingBound ==
    arrayPc # "idle" =>
        /\ maxLength <= 1000 =>
               /\ arrayIdx = IndicesCompared
               /\ arrayPc = "done" => IndicesCompared = maxLength
        /\ maxLength > 1000 =>
               /\ IndicesCompared <= 1000
               /\ arrayIdx = IndicesCompared * (maxLength \div 1000)

\* What the capped comparator records for the two documents when the cap is
\* out of reach: the complete result.
CompleteDifferences ==
    compareCapped(leftJson, rightJson, "", <<>>,
                  [differences |-> <<>>, comparisonCount |-> 0],
                  DefaultMaxDifferences).differences

(***************************************************************************)
(* C25  Truncation notice is precise: formatDifferences marks the result   *)
(* as truncated if and only if the comparison stopped short of recording   *)
(* at least one difference because the cap was reached; a comparison whose *)
(* complete result fits within the cap is never reported as truncated.     *)
(***************************************************************************)
C25_TruncationPrecise ==
    op = "compareFilesCapped" =>
        (output.truncated <=> Len(differences) < Len(CompleteDifferences))

\* What the uncapped comparator of src/src/json-compare.js records for the
\* two documents.
UncappedDifferences == compare(leftJson, rightJson, "", <<>>, <<>>)

(***************************************************************************)
(* C26  Capped comparator refines the uncapped one: on inputs in which no  *)
(* compared array pair is longer than 1000 (all arrays of the model), the  *)
(* difference sequence of the capped CLI comparator equals the first       *)
(* min(N, cap) records, in order, of the N-record sequence the uncapped    *)
(* comparator produces on the same inputs; and in every reachable state    *)
(* the capped accumulator holds at most cap records.                       *)
(***************************************************************************)
C26_CappedRefinesUncapped ==
    /\ Len(differences) <= maxDifferences
    /\ op = "compareFilesCapped" =>
           differences = SubSeq(UncappedDifferences, 1,
                                Min(Len(UncappedDifferences), maxDifferences))

\* The cap of two cut a result of three records down to its first two.
C26_Witness ==
    /\ op = "compareFilesCapped"
    /\ maxDifferences = 2
    /\ Len(UncappedDifferences) = 3
    /\ Len(differences) = 2
    /\ differences[2] = UncappedDifferences[2]

(***************************************************************************)
(* C27  Paths identify positions: within one comparison run, two           *)
(* difference records emitted for different structural positions never     *)
(* carry the same path string, whatever the member names (empty, 'root',   *)
(* or holding '.' or '[').                                                 *)
(***************************************************************************)
C27_PathsIdentifyPositions ==
    Called =>
        \A i, j \in 1..Len(differences) :
            differences[i].pos # differences[j].pos =>
                differences[i].path # differences[j].path

(***************************************************************************)
(* C28  Compare button is eventually re-enabled: after a Compare click     *)
(* with two valid inputs has disabled the button and deferred the          *)
(* comparison, the button is enabled again under every interleaving of     *)
(* text edits, swaps and file loads that come before the callback, and at  *)
(* most one deferred comparison is pending at any time.  Only the deferred *)
(* callback enables the button, and a disabled button takes no click; so   *)
(* the button can come back only if, whenever it is disabled, the page is  *)
(* responsive and its one deferred comparison is still pending.            *)
(***************************************************************************)
C28_ButtonReenabled ==
    /\ Len(timers) <= 1
    /\ compareBtnDisabled => (page = "ready" /\ Len(timers) = 1)

\* The rows the side-by-side view renders for two documents.
RenderedRows(l, r) ==
    LET diff == createLineDiff(PrettyLines(l), PrettyLines(r))
    IN  [k \in 1..Len(diff.rows) |-> createDiffLine(diff.rows[k])]

\* The summary displayResults shows for two documents.
SummaryOf(l, r) ==
    LET diffs == compare(l, r, "", <<>>, <<>>)
    IN  IF diffs = <<>>
        THEN Summary("No differences found", "The JSON objects are identical.")
        ELSE Summary("Found " \o ToString(Len(diffs)) \o " difference(s)",
                     CountsText(countDifferenceTypes(diffs)))

(***************************************************************************)
(* C29  Displayed result is consistent: the summary and the side-by-side   *)
(* rows shown for one comparison are computed from the same pair of        *)
(* documents, the two parsed when Compare was clicked (leftJson and        *)
(* rightJson of the callback), even if the text areas were changed by an   *)
(* edit, a swap or a file load between the click and the callback.         *)
(***************************************************************************)
C29_DisplayedResultConsistent ==
    (op = "compareObjects" /\ ~results.hidden) =>
        /\ summary = SummaryOf(leftJson, rightJson)
        /\ createLineDiff(PrettyLines(leftJson), PrettyLines(rightJson)).returns
        /\ results.rows = RenderedRows(leftJson, rightJson)

(***************************************************************************)
(* C30  Background scrolling is locked while an overlay is open: after any *)
(* sequence of openDocsModal, closeDocsModal, toggleMobileMenu and         *)
(* nav-link clicks, whenever the documentation modal is visible the body   *)
(* overflow is 'hidden', and the body overflow is '' only when both the    *)
(* modal and the mobile menu are closed.                                   *)
(***************************************************************************)
C30_ScrollLock ==
    /\ ~docsModalHidden => bodyOverflow = "hidden"
    /\ bodyOverflow = "" => (docsModalHidden /\ ~navLinksActive)

====
